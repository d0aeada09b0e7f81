----------------------------- MODULE EventStream ----------------------------
(***************************************************************************)
(* From a committed event to what a browser shows: the durable sink        *)
(* (foundation/events/durable.go), the Thread's broadcaster and the SSE    *)
(* handler that replays the journal to a client that connects again        *)
(* (entrypoints/agenthttp/{broadcaster,replay,browser_event,handlers}.go). *)
(* Commits, the delivery goroutine and every SSE handler interleave; a     *)
(* connection may break anywhere, and a client that falls behind by more   *)
(* than its buffer is dropped.                                             *)
(***************************************************************************)
EXTENDS Naturals, SequencesExt

CONSTANTS
    Browsers,       \* SSE clients
    BufferSize,     \* broadcasterBufferSize, 64 in the code
    MaxEvents,      \* bound: events committed
    MaxConnections, \* bound: connections of one client
    StreamFaults    \* what goes wrong: "replay", a replay that is refused;
                    \* "cursor", a transcript read between two projections;
                    \* "overrun", a buffer that fills before the replay
                    \* is planned

ASSUME StreamBounds ==
    /\ BufferSize \in Nat \ {0} /\ MaxEvents \in Nat /\ MaxConnections \in Nat
    /\ StreamFaults \subseteq {"replay", "cursor", "overrun"}

VARIABLES
    emitted,    \* kinds of the committed events, in commit order
    commitStep, \* who holds commitMu: free, or the last event is not completed
    published,  \* events that have passed the projections
    sinkClosed, \* the Agent has closed its sink
    recentDurable, \* the broadcaster's durableOrder
    client      \* per browser: connection and what it has shown

bvars == <<emitted, commitStep, published, sinkClosed, recentDurable,
           client>>

(* A fact is in the journal and shown; a hidden one is in the journal      *)
(* only; a transient is shown and never in the journal.                    *)
Kinds == {"fact", "hidden", "transient"}
IsFact(n) == emitted[n] = "fact"
InJournal(n) == emitted[n] # "transient"
ForBrowser(n) == emitted[n] # "hidden"

Offline == [phase |-> "offline", live |-> FALSE, queue |-> <<>>, start |-> 0,
            replay |-> <<>>, dedup |-> {}, boundary |-> 0]

Numbers(lo, hi, P(_)) == SelectSeq([i \in 1 .. (hi - lo) |-> lo + i], P)

-----------------------------------------------------------------------------
(* DurableSink.commitForPublication: AppendEvent, then complete runs the   *)
(* projections (the bus deliveries are left out).  commitMu is held throughout; a  *)
(* failed append changes nothing.                                          *)

CommitEvent(kind) ==
    /\ commitStep = "free" /\ ~sinkClosed /\ Len(emitted) < MaxEvents
    /\ emitted' = Append(emitted, kind)
    /\ commitStep' = "appended"
    /\ UNCHANGED <<published, sinkClosed, recentDurable, client>>

(* broadcaster.publish: a subscriber whose buffer is full is dropped. *)
Publish1(c, n) ==
    IF ~c.live THEN c
    ELSE IF Len(c.queue) < BufferSize THEN [c EXCEPT !.queue = Append(@, n)]
    ELSE [c EXCEPT !.live = FALSE]

Remember(n) ==
    LET order == Append(recentDurable, n) IN
    IF Len(order) > BufferSize THEN Tail(order) ELSE order

CompleteCommit ==
    LET n == Len(emitted) IN
    /\ commitStep = "appended"
    /\ commitStep' = "free"
    /\ published' = n
    /\ IF ForBrowser(n)
       THEN /\ client' = [b \in Browsers |-> [client[b] EXCEPT !.conn = Publish1(@, n)]]
            /\ recentDurable' = IF IsFact(n) THEN Remember(n) ELSE recentDurable
       ELSE UNCHANGED <<client, recentDurable>>
    /\ UNCHANGED <<emitted, sinkClosed>>

(* Close takes commitMu: no later commit, no later replay. *)
CloseSink ==
    /\ commitStep = "free" /\ ~sinkClosed
    /\ sinkClosed' = TRUE
    /\ UNCHANGED <<emitted, commitStep, published, recentDurable, client>>

-----------------------------------------------------------------------------
(* handleEventsSSE *)

In(b, phase) == client[b].conn.phase = phase
Conn(b, c) == client' = [client EXCEPT ![b].conn = c]
OnlyClients ==
    UNCHANGED <<emitted, commitStep, published, sinkClosed, recentDurable>>

(* handleThreadShow: the client has the transcript and, as its cursor, the *)
(* event the status projection saw last.  The status projection comes      *)
(* before the browser's, so that event may not have been published.        *)
ReadTranscript(b) ==
    /\ ~client[b].started
    /\ \E seen \in {published} \cup (IF "cursor" \in StreamFaults THEN {Len(emitted)} ELSE {}) :
          LET journal == Numbers(0, seen, InJournal)
              cursor == IF journal = <<>> THEN 0 ELSE Last(journal)
          IN client' = [client EXCEPT ![b].started = TRUE, ![b].from = cursor,
                                      ![b].cursor = cursor]
    /\ OnlyClients

(* broadcaster.subscribe, with the cursor of the request *)
Connect(b) ==
    /\ client[b].started /\ In(b, "offline") /\ client[b].connections < MaxConnections
    /\ client' = [client EXCEPT
          ![b].connections = @ + 1,
          ![b].conn = [Offline EXCEPT !.phase = "subscribed", !.live = TRUE, !.start = published]]
    /\ OnlyClients

(* captureCommittedEventReplay under commitMu, projectBrowserEvents *)
CaptureReplay(b) ==
    /\ In(b, "subscribed") /\ commitStep = "free" /\ ~sinkClosed
    /\ Conn(b, [client[b].conn EXCEPT
          !.phase = "captured", !.replay = Numbers(client[b].cursor, Len(emitted), IsFact)])
    /\ OnlyClients

(* ReadCommitted refuses with ErrDurableSinkClosed, or the journal cannot  *)
(* be read: the handler goes on to the live frames without a replay.       *)
ReplayRefused(b) ==
    /\ "replay" \in StreamFaults
    /\ In(b, "subscribed") /\ commitStep = "free"
    /\ Conn(b, [client[b].conn EXCEPT !.phase = "live"])
    /\ OnlyClients

(* broadcaster.replayBoundary: the last replayed fact it still remembers   *)
ReplayBoundary(c) ==
    LET known == {n \in ToSet(c.replay) : n \in ToSet(recentDurable) /\ n > c.start}
    IN  IF known = {} THEN c.start ELSE CHOOSE n \in known : \A m \in known : m <= n

(* newBrowserReplayDeduplicator *)
PlanReplay(b) ==
    LET c == client[b].conn
        overlap == {c.replay[i] : i \in {j \in DOMAIN c.replay : j > Len(c.replay) - BufferSize}}
    IN
    /\ In(b, "captured")
    /\ c.live \/ "overrun" \in StreamFaults
    /\ Conn(b, [c EXCEPT !.phase = "replaying", !.dedup = overlap, !.boundary = ReplayBoundary(c)])
    /\ OnlyClients

(* writeBrowserSSEFrame: the id of a fact becomes the client's cursor. *)
Show(b, n, c) ==
    client' = [client EXCEPT ![b].shown = Append(@, n), ![b].conn = c,
                             ![b].cursor = IF IsFact(n) THEN n ELSE @]

ReplayFrame(b) ==
    LET c == client[b].conn IN
    /\ In(b, "replaying")
    /\ \/ c.replay # <<>> /\ Show(b, Head(c.replay), [c EXCEPT !.replay = Tail(@)])
       \/ c.replay = <<>> /\ Conn(b, [c EXCEPT !.phase = "live"])
    /\ OnlyClients

(* browserReplayDeduplicator.skip *)
LiveFrame(b) ==
    LET c == client[b].conn
        n == Head(c.queue)
        rest == [c EXCEPT !.queue = Tail(@)]
    IN
    /\ In(b, "live") /\ c.queue # <<>>
    /\ CASE c.dedup # {} /\ ~IsFact(n) /\ n <= c.boundary -> Conn(b, rest)
         [] n \in c.dedup -> Conn(b, [rest EXCEPT !.dedup = @ \ {n}])
         [] IsFact(n) /\ n \notin c.dedup -> Show(b, n, [rest EXCEPT !.dedup = {}])
         [] OTHER -> Show(b, n, rest)
    /\ OnlyClients

(* The handler returns: the client went away, or it was dropped and the    *)
(* select took done, perhaps before the buffer was empty.                  *)
Disconnect(b) ==
    /\ ~In(b, "offline")
    /\ Conn(b, Offline)
    /\ OnlyClients

-----------------------------------------------------------------------------
BInit ==
    /\ emitted = <<>> /\ commitStep = "free" /\ published = 0
    /\ sinkClosed = FALSE
    /\ recentDurable = <<>>
    /\ client = [b \in Browsers |-> [started |-> FALSE, shown |-> <<>>, from |-> 0, cursor |-> 0,
                                     connections |-> 0, conn |-> Offline]]

BNext ==
    \/ \E kind \in Kinds : CommitEvent(kind)
    \/ CompleteCommit
    \/ CloseSink
    \/ \E b \in Browsers :
          \/ ReadTranscript(b)
          \/ Connect(b)
          \/ CaptureReplay(b)
          \/ ReplayRefused(b)
          \/ PlanReplay(b)
          \/ ReplayFrame(b)
          \/ LiveFrame(b)
          \/ Disconnect(b)

BSpec == BInit /\ [][BNext]_bvars

-----------------------------------------------------------------------------
(* Properties *)

BTypeOK ==
    /\ emitted \in Seq(Kinds) /\ Len(emitted) <= MaxEvents
    /\ commitStep \in {"free", "appended"} /\ published \in 0 .. Len(emitted)
    /\ sinkClosed \in BOOLEAN /\ Len(recentDurable) <= BufferSize
    /\ \A b \in Browsers : Len(client[b].conn.queue) <= BufferSize

(* "clients send it back as Last-Event-ID (or ?since=) on reconnect so the *)
(* server can replay missed facts from the Thread Journal" (sse.go): over  *)
(* any number of connections, drops and replays that overlap the live      *)
(* stream, the frames a browser gets are in commit order, none twice, and  *)
(* no fact after its transcript is missing before one that it gets.        *)
BrowserExact ==
    \A b \in Browsers :
        LET shown == client[b].shown IN
        /\ \A i, j \in DOMAIN shown : i < j => shown[i] < shown[j]
        /\ shown # <<>> =>
              \A n \in (client[b].from + 1) .. Last(shown) : IsFact(n) => n \in ToSet(shown)

=============================================================================
