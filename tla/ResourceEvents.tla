---------------------------- MODULE ResourceEvents ----------------------------
(***************************************************************************)
(* The Agent's resource stream (agenthttp/resource_events.go): a page that *)
(* shows the workspace, the observables or the runtime is told to read     *)
(* them again.  Changes arrive from a file watcher that lives while        *)
(* somebody is subscribed and from tool events; the watcher goroutine      *)
(* debounces them, every subscriber coalesces them, directories appear     *)
(* after the watcher started, the watcher's queue overflows, watches       *)
(* cannot be added, and pages come and go.                                 *)
(***************************************************************************)
EXTENDS Naturals, FiniteSets

CONSTANTS MaxWatchers,     \* bound: watchers the hub starts
          MaxPages,        \* bound: connections of the page
          MaxChangesMade,  \* bound: changes to files
          MaxWatchFaults   \* bound: overflows and watches that cannot be added

Watchers == 1..MaxWatchers
Pages == 1..MaxPages
Resources == {"workspace", "observables", "runtime"}

\* What a file is to resourceForPath and isMutableRuntimeInput
PathKinds == {"source", "instructions", "observables", "input", "nested"}

VARIABLES
  stale,       \* resources that changed after the page last read them
  changes,     \* changes made
  folder,      \* the new directory: "none" or "made"
  projections, \* Publish calls under way: resources and the watcher they found
  rhub,        \* resourceEventHub: watcher (0: none), subscribers, closed
  watchers,    \* watcher -> its goroutine and channels
  streams,     \* connection -> resourceSubscriber and its handler
  browser,     \* the page's connection (0: none)
  watchFaults

revars == <<stale, changes, folder, projections, rhub, watchers, streams, browser,
            watchFaults>>

-----------------------------------------------------------------------------

\* resourcesForPath: the observables configuration, an input of the runtime
\* outside the workspace, an instruction file inside it, any other file
ResourcesForPath(p) ==
  CASE p = "observables"  -> {"observables"}
    [] p = "input"        -> {"runtime"}
    [] p = "instructions" -> {"workspace", "runtime"}
    [] p \in {"source", "nested", "folder"} -> {"workspace"}

\* Publish: what a tool or an Observable event invalidates
ResourcesForEvent(type) ==
  IF type = "observable" THEN {"observables"} ELSE {"workspace", "runtime"}

NoWatcher == [pc |-> "none", events |-> {}, covers |-> FALSE, overflow |-> FALSE,
              asked |-> {}, pending |-> {}]

NoStream == [pc |-> "none", pending |-> {}, notify |-> FALSE]

Alive(w) == watchers[w].pc = "watching"

\* resourceSubscriber.publish for the subscribers in the map
Told(S, resources) ==
  [c \in Pages |-> IF c \in S THEN [streams[c] EXCEPT !.pending = @ \cup resources,
                                                      !.notify = TRUE]
                   ELSE streams[c]]

-----------------------------------------------------------------------------
(* The world: files change.  Every watcher that covers the directory gets   *)
(* an event; one that is full reports an overflow instead.                  *)

Covered(w, p) == Alive(w) /\ (p = "nested" => watchers[w].covers)

Notified(p) ==
  [w \in Watchers |-> IF Covered(w, p) THEN [watchers[w] EXCEPT !.events = @ \cup {p}]
                      ELSE watchers[w]]

Change(p) ==
  /\ changes < MaxChangesMade /\ (p = "nested" => folder = "made")
  /\ changes' = changes + 1
  /\ stale' = stale \cup ResourcesForPath(p)
  /\ watchers' = Notified(p)
  /\ UNCHANGED <<folder, projections, rhub, streams, browser, watchFaults>>

MakeFolder ==
  /\ folder = "none" /\ changes < MaxChangesMade
  /\ folder' = "made" /\ changes' = changes + 1
  /\ stale' = stale \cup ResourcesForPath("folder")
  /\ watchers' = Notified("folder")
  /\ UNCHANGED <<projections, rhub, streams, browser, watchFaults>>

\* A tool or an Observable changed something the watcher does not see, and
\* its event is about to be published: invalidate reads the hub's present
\* invalidations under the lock and uses them outside
ToolEvent(type) ==
  /\ changes < MaxChangesMade
  /\ changes' = changes + 1
  /\ stale' = stale \cup ResourcesForEvent(type)
  /\ projections' = projections \cup
       {[resources |-> ResourcesForEvent(type), to |-> rhub.watcher]}
  /\ UNCHANGED <<folder, rhub, watchers, streams, browser, watchFaults>>

Invalidate(x) ==
  /\ projections' = projections \ {x}
  /\ watchers' = IF x.to = 0 \/ ~Alive(x.to) THEN watchers
                 ELSE [watchers EXCEPT ![x.to].asked = @ \cup x.resources]
  /\ UNCHANGED <<stale, changes, folder, rhub, streams, browser, watchFaults>>

Overflow(w) ==
  /\ Alive(w) /\ watchers[w].events # {} /\ watchFaults < MaxWatchFaults
  /\ watchFaults' = watchFaults + 1
  /\ watchers' = [watchers EXCEPT ![w].events = {}, ![w].overflow = TRUE]
  /\ UNCHANGED <<stale, changes, folder, projections, rhub, streams, browser>>

-----------------------------------------------------------------------------
(* runWatcher *)

\* A watcher event; a created directory is walked and watched before its
\* resources are queued
WatchEvent(w, p) ==
  /\ Alive(w) /\ p \in watchers[w].events
  /\ watchers' = [watchers EXCEPT ![w].events = @ \ {p},
                                  ![w].covers = @ \/ p = "folder",
                                  ![w].pending = @ \cup ResourcesForPath(p)]
  /\ UNCHANGED <<stale, changes, folder, projections, rhub, streams, browser, watchFaults>>

\* failWatcher acts for the hub's present watcher only
Fails(w) == rhub.watcher = w

\* addRoot fails: failWatcher closes every subscriber, unless the hub has
\* another watcher by now
WatchFails(w) ==
  /\ Alive(w) /\ "folder" \in watchers[w].events /\ watchFaults < MaxWatchFaults
  /\ watchFaults' = watchFaults + 1
  /\ watchers' = [watchers EXCEPT ![w] = [NoWatcher EXCEPT !.pc = "ended"]]
  /\ IF Fails(w)
     THEN /\ rhub' = [rhub EXCEPT !.watcher = 0, !.subscribers = {}]
          /\ streams' = [c \in Pages |-> IF c \in rhub.subscribers
                                         THEN [streams[c] EXCEPT !.pc = "done"]
                                         ELSE streams[c]]
     ELSE UNCHANGED <<rhub, streams>>
  /\ UNCHANGED <<stale, changes, folder, projections, browser>>

TakeInvalidations(w) ==
  /\ Alive(w) /\ watchers[w].asked # {}
  /\ watchers' = [watchers EXCEPT ![w].asked = {},
                                  ![w].pending = @ \cup watchers[w].asked]
  /\ UNCHANGED <<stale, changes, folder, projections, rhub, streams, browser, watchFaults>>

\* The debounce timer fires: flush
Flush(w) ==
  /\ Alive(w) /\ watchers[w].pending # {}
  /\ streams' = Told(rhub.subscribers, watchers[w].pending)
  /\ watchers' = [watchers EXCEPT ![w].pending = {}]
  /\ UNCHANGED <<stale, changes, folder, projections, rhub, browser, watchFaults>>

\* watcher.Errors: resyncAfterWatcherError
Resync(w) ==
  /\ Alive(w) /\ watchers[w].overflow
  /\ streams' = Told(rhub.subscribers, Resources)
  /\ watchers' = [watchers EXCEPT ![w].overflow = FALSE]
  /\ UNCHANGED <<stale, changes, folder, projections, rhub, browser, watchFaults>>

\* ctx is done: nobody reads this watcher any more
WatcherEnds(w) ==
  /\ Alive(w) /\ rhub.watcher # w
  /\ watchers' = [watchers EXCEPT ![w] = [NoWatcher EXCEPT !.pc = "ended"]]
  /\ UNCHANGED <<stale, changes, folder, projections, rhub, streams, browser, watchFaults>>

-----------------------------------------------------------------------------
(* handleResourceEvents *)

\* subscribe: the first subscriber starts a watcher, which walks the
\* directories that exist by now, and is registered under the same lock
Subscribe ==
  LET c == Cardinality({d \in Pages : streams[d].pc # "none"}) + 1
      w == Cardinality({v \in Watchers : watchers[v].pc # "none"}) + 1
  IN
  /\ browser = 0 /\ ~rhub.closed /\ c \in Pages
  /\ \/ rhub.watcher # 0 /\ UNCHANGED watchers
        /\ rhub' = [rhub EXCEPT !.subscribers = @ \cup {c}]
     \/ /\ rhub.watcher = 0 /\ w \in Watchers
        /\ watchers' = [watchers EXCEPT ![w] =
             [NoWatcher EXCEPT !.pc = "watching", !.covers = folder = "made"]]
        /\ rhub' = [rhub EXCEPT !.watcher = w, !.subscribers = @ \cup {c}]
  /\ browser' = c
  /\ streams' = [streams EXCEPT ![c].pc = "greeting"]
  /\ UNCHANGED <<stale, changes, folder, projections, watchFaults>>

\* The page reads again what the event names
Reread(resources) == stale' = stale \ resources

\* The first event names every resource
Greet(c) ==
  /\ streams[c].pc = "greeting" /\ browser = c
  /\ streams' = [streams EXCEPT ![c].pc = "open"]
  /\ Reread(Resources)
  /\ UNCHANGED <<changes, folder, projections, rhub, watchers, browser, watchFaults>>

\* <-subscription.updates: take
Send(c) ==
  /\ streams[c].pc = "open" /\ streams[c].notify /\ browser = c
  /\ Reread(streams[c].pending)
  /\ streams' = [streams EXCEPT ![c].pending = {}, ![c].notify = FALSE]
  /\ UNCHANGED <<changes, folder, projections, rhub, watchers, browser, watchFaults>>

\* The connection ends: the page left, or its stream is done.  cancel stops
\* the watcher with its last subscriber.
Leave(c) ==
  LET rest == rhub.subscribers \ {c} IN
  /\ streams[c].pc \in {"greeting", "open", "done"}
  /\ streams[c].pc = "done" \/ browser # c
  /\ streams' = [streams EXCEPT ![c] = [NoStream EXCEPT !.pc = "left"]]
  /\ browser' = IF browser = c THEN 0 ELSE browser
  /\ rhub' = IF c \notin rhub.subscribers THEN rhub
             ELSE [rhub EXCEPT !.subscribers = rest,
                               !.watcher = IF rest = {} THEN 0 ELSE @]
  /\ UNCHANGED <<stale, changes, folder, projections, watchers, watchFaults>>

StreamLost ==
  /\ browser # 0 /\ browser' = 0
  /\ UNCHANGED <<stale, changes, folder, projections, rhub, watchers, streams, watchFaults>>

\* close: the server shuts down
CloseHub ==
  /\ ~rhub.closed
  /\ rhub' = [watcher |-> 0, subscribers |-> {}, closed |-> TRUE]
  /\ streams' = [c \in Pages |-> IF c \in rhub.subscribers
                                 THEN [streams[c] EXCEPT !.pc = "done"] ELSE streams[c]]
  /\ UNCHANGED <<stale, changes, folder, projections, watchers, browser, watchFaults>>

-----------------------------------------------------------------------------

REInit ==
  /\ stale = {} /\ changes = 0 /\ folder = "none" /\ projections = {}
  /\ rhub = [watcher |-> 0, subscribers |-> {}, closed |-> FALSE]
  /\ watchers = [w \in Watchers |-> NoWatcher]
  /\ streams = [c \in Pages |-> NoStream]
  /\ browser = 0 /\ watchFaults = 0

RENext ==
  \/ \E p \in PathKinds : Change(p)
  \/ MakeFolder
  \/ \E type \in {"observable", "write"} : ToolEvent(type)
  \/ \E x \in projections : Invalidate(x)
  \/ \E w \in Watchers :
       \/ Overflow(w) \/ WatchFails(w) \/ TakeInvalidations(w) \/ Flush(w)
       \/ Resync(w) \/ WatcherEnds(w)
       \/ \E p \in watchers[w].events : WatchEvent(w, p)
  \/ \E c \in Pages : Greet(c) \/ Send(c) \/ Leave(c)
  \/ Subscribe \/ StreamLost \/ CloseHub

RESpec == REInit /\ [][RENext]_revars

\* Type correctness of the hub, its watchers and subscribers
RETypeOK ==
  /\ stale \subseteq Resources /\ rhub.watcher \in 0..MaxWatchers
  /\ rhub.subscribers \subseteq Pages /\ browser \in 0..MaxPages
  /\ \A w \in Watchers : watchers[w].pending \subseteq Resources
  /\ \A c \in Pages : streams[c].pending \subseteq Resources

\* A change is still on its way to subscriber c
OnItsWay(c) ==
  \/ streams[c].pc = "greeting" \/ streams[c].notify
  \/ projections # {}
  \/ LET w == watchers[rhub.watcher]
     IN w.events # {} \/ w.overflow \/ w.asked # {} \/ w.pending # {}

\* Every directory is watched.  An overflow may swallow the creation of a
\* directory, which is then never watched: resyncAfterWatcherError tells the
\* pages once and adds no watch.
AllWatched == folder = "made" => watchers[rhub.watcher].covers

\* A page whose stream is open has read every resource again after its last
\* change, or is about to be told: no change is lost between two watchers,
\* in a directory before it was watched, in an overflow, in an invalidation
\* that raced the end of a watcher, or before the page was registered
\* (subscribe, runWatcher, invalidate, failWatcher)
ChangesReach ==
  \A c \in Pages :
    (browser = c /\ c \in rhub.subscribers /\ ~OnItsWay(c) /\ AllWatched)
      => stale = {}

\* A subscriber the hub no longer serves is told to leave, so the page comes
\* back: nobody stays on a stream without a watcher (failWatcher, close)
SubscribersServed ==
  /\ rhub.subscribers # {} => rhub.watcher # 0 /\ Alive(rhub.watcher)
  /\ \A c \in Pages : streams[c].pc \in {"greeting", "open"} => c \in rhub.subscribers

\* What the resource stream promises its pages (resource_events.go)
ResourcesSafe == ChangesReach /\ SubscribersServed

=============================================================================
