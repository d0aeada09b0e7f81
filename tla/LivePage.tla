------------------------------- MODULE LivePage -------------------------------
(***************************************************************************)
(* The transcript of a Thread in the browser (thread-read-controller.ts,   *)
(* thread-read-state.ts, live-thread-projection.ts, live-tool-events.ts,   *)
(* queued-inputs.ts).  The page shows the messages of its last GET and     *)
(* behind them a live projection made from the event stream and from the   *)
(* answers to its own POSTs.  Stream, GETs and POSTs race one another.     *)
(*                                                                         *)
(* The Engine is reduced to the messages it saves and the events it emits, *)
(* in their order.  Message contents are left out, except that two inputs  *)
(* may have the same text.  Ids are tuples, <<>> where there is none.      *)
(***************************************************************************)
EXTENDS Naturals, Sequences, SequencesExt, FiniteSets

CONSTANTS MaxPosts,        \* bound: inputs sent from this page
          SameText,        \* whether all inputs have the same text
          BatchCalls,      \* tool calls of one batch: 1..n
          MaxRounds,       \* bound: provider iterations of a Turn
          MaxFeed,         \* bound: events on their way to the page
          MaxOpenings,     \* bound: openings of the event stream
          MaxPageCompacts, \* bound: compactions
          LatePosts        \* may a POST be answered after its input was consumed?

ASSUME LivePageBounds == MaxFeed >= 2 /\ BatchCalls \in Nat \ {0}

VARIABLES
  srv,     \* the Engine: step, Turn, pending inputs
  saved,   \* the messages of the Thread
  feed,    \* events after the page's cursor
  posts,   \* POSTs without an answer yet
  spent,   \* [posts, openings, compacts, turns]
  view,    \* ThreadReadState: data and projection
  get,     \* the latest GET (an older answer is ignored: historyRevision)
  clean    \* the last GET saw an idle Thread and a page without unread events

lpvars == <<srv, saved, feed, posts, spent, view, get, clean>>

NoId == <<>>
TextOf(n) == IF SameText THEN 1 ELSE n
InputId(n) == <<"input", n>>
AssistantId(t, i) == <<"assistant", t, i>>
ResultsId(t, i) == <<"results", t, i>>

-----------------------------------------------------------------------------
(* Messages of the projection.  Only user messages have a text; uses and    *)
(* results are the tool_use and tool_result blocks, streaming the calls     *)
(* whose result is provisional.                                             *)

Message(role, id, turn) ==
  [role |-> role, id |-> id, turn |-> turn, text |-> 0, pending |-> FALSE,
   partial |-> FALSE, uses |-> {}, results |-> {}, streaming |-> {}]

UserMessage(item, turn) == [Message("user", item.id, turn) EXCEPT !.text = item.text]
PendingAssistant(turn) == [Message("assistant", NoId, turn) EXCEPT !.pending = TRUE]

\* The indices of the messages with a property
Where(ms, Test(_)) == {i \in DOMAIN ms : Test(ms[i])}
FirstOf(S) == CHOOSE i \in S : \A j \in S : i <= j
LastOf(S) == CHOOSE i \in S : \A j \in S : i >= j
EachMessage(ms, F(_)) == [i \in DOMAIN ms |-> F(ms[i])]

IsPendingOf(m, turn) == m.turn = turn /\ m.role = "assistant" /\ m.pending
PendingAt(ms, turn) == LET Is(m) == IsPendingOf(m, turn) IN Where(ms, Is)

\* findPendingTurnForInput: the Turns with this text that have no answer yet
PendingTurnsFor(ms, text) ==
  LET Is(m) == m.role = "user" /\ m.text = text /\ PendingAt(ms, m.turn) # {}
  IN Where(ms, Is)

\* appendLiveTurnToMessages
AppendLiveTurn(ms, turn, item, source) ==
  LET same == PendingTurnsFor(ms, item.text)
      old == ms[FirstOf(same)].turn
      Named(m) == IF m.turn = turn /\ m.role = "user" /\ m.id = NoId
                  THEN [m EXCEPT !.id = item.id] ELSE m
      Adopted(m) == IF m.turn # old THEN m
                    ELSE [m EXCEPT !.turn = turn,
                                   !.id = IF m.role = "user" THEN item.id ELSE @]
  IN IF \E m \in Range(ms) : m.turn = turn
     THEN IF source = "event" THEN EachMessage(ms, Named) ELSE ms
     ELSE IF same # {}
     THEN IF source = "event" THEN EachMessage(ms, Adopted) ELSE ms
     ELSE ms \o <<UserMessage(item, turn), PendingAssistant(turn)>>

\* appendDrainedInputs: before the answer that is still expected
AppendDrained(ms, items, turn) ==
  LET added == [i \in DOMAIN items |-> UserMessage(items[i], turn)]
      at == PendingAt(ms, turn)
  IN IF at = {} THEN ms \o added
     ELSE SubSeq(ms, 1, FirstOf(at) - 1) \o added \o SubSeq(ms, FirstOf(at), Len(ms))

\* applyAssistantOutputDelta
AppendDelta(ms, turn) ==
  LET at == PendingAt(ms, turn) IN
  IF at = {} THEN Append(ms, [PendingAssistant(turn) EXCEPT !.partial = TRUE])
  ELSE [ms EXCEPT ![LastOf(at)].partial = TRUE]

\* resetPendingAssistantOutput
ResetPartial(ms, turn) ==
  LET F(m) == IF IsPendingOf(m, turn) THEN [m EXCEPT !.partial = FALSE, !.uses = {}] ELSE m
  IN EachMessage(ms, F)

\* applyAssistantResponse
ApplyResponse(ms, e) ==
  LET at == PendingAt(ms, e.turn)
      answer == [Message("assistant", e.id, e.turn) EXCEPT !.uses = e.calls]
  IN IF at = {} THEN Append(ms, answer) ELSE [ms EXCEPT ![FirstOf(at)] = answer]

-----------------------------------------------------------------------------
(* Tools (live-tool-events.ts) *)

\* applyToolRequestedToMessages, toolUpdateTargetIndex: the assistant message
\* that has the call, or the last one of the Turn
ToolRequestedTo(ms, turn, call) ==
  LET Of(m) == m.turn = turn /\ m.role = "assistant"
      Has(m) == Of(m) /\ call \in m.uses
      at == IF Where(ms, Has) # {} THEN Where(ms, Has) ELSE Where(ms, Of)
  IN IF at = {} THEN Append(ms, [PendingAssistant(turn) EXCEPT !.uses = {call}])
     ELSE [ms EXCEPT ![LastOf(at)].uses = @ \cup {call}]

InsertedAt(ms, i, m) == SubSeq(ms, 1, i - 1) \o <<m>> \o SubSeq(ms, i, Len(ms))

IsResults(m) == m.role = "user" /\ m.text = 0

\* ensureToolUseBeforeResult
EnsureToolUse(ms, turn, call) ==
  LET HasResult(m) == m.turn = turn /\ m.role = "user" /\ call \in m.results
      r == Where(ms, HasResult)
      end == IF r = {} THEN Len(ms) + 1 ELSE FirstOf(r)
      Of(m) == m.turn = turn /\ m.role = "assistant"
      before == {i \in Where(ms, Of) : i < end}
  IN IF \E i \in before : call \in ms[i].uses THEN ms
     ELSE IF before # {} THEN [ms EXCEPT ![LastOf(before)].uses = @ \cup {call}]
     ELSE InsertedAt(ms, end, [PendingAssistant(turn) EXCEPT !.uses = {call}])

\* toolResultTarget: [at, insert]; the search from the end stops where the
\* messages of the Turn end
ResultTarget(ms, turn, call) ==
  LET Of(m) == m.turn = turn
      last == LastOf(Where(ms, Of))
      run == {i \in 1..last : \A j \in i..last : ms[j].turn = turn}
      has == {i \in run : IsResults(ms[i]) /\ call \in ms[i].results}
      some == {i \in run : IsResults(ms[i])}
      uses == {i \in run : ms[i].role = "assistant" /\ call \in ms[i].uses}
      use == LastOf(uses)
      after == {i \in some : i > use /\ \A j \in use + 1 .. i : ms[j].turn = turn
                                                                /\ ms[j].role # "assistant"}
  IN IF Where(ms, Of) = {} THEN [at |-> 0, insert |-> Len(ms) + 1]
     ELSE IF has # {} THEN [at |-> LastOf(has), insert |-> 0]
     ELSE IF uses = {}
     THEN [at |-> IF some = {} THEN 0 ELSE LastOf(some), insert |-> Len(ms) + 1]
     ELSE IF after # {} THEN [at |-> FirstOf(after), insert |-> 0]
     ELSE [at |-> 0, insert |-> use + 1]

\* upsertToolResultBlock and mergeToolResultBlock: provisional output is
\* appended, a final result replaces it
UpsertResult(ms, turn, call, streaming) ==
  LET target == ResultTarget(ms, turn, call)
      Merged(m) == [m EXCEPT !.results = @ \cup {call},
                             !.streaming = IF streaming THEN @ \cup {call} ELSE @ \ {call}]
  IN IF target.at # 0 THEN [ms EXCEPT ![target.at] = Merged(@)]
     ELSE InsertedAt(ms, target.insert, Merged(Message("user", NoId, turn)))

ApplyToolResult(ms, e, streaming) ==
  UpsertResult(EnsureToolUse(ms, e.turn, e.call), e.turn, e.call, streaming)

-----------------------------------------------------------------------------
(* Queued inputs (queued-inputs.ts) *)

\* enqueueQueuedInput: the answer and the event of one input meet in the slot
\* that its pending count names
Enqueued(items, item, count) ==
  IF count > 0 /\ Len(items) > count THEN items
  ELSE IF count > 0 /\ Len(items) = count
  THEN [items EXCEPT ![count] =
          [text |-> item.text, id |-> IF item.id # NoId THEN item.id ELSE @.id]]
  ELSE Append(items, item)

Least(a, b) == IF a < b THEN a ELSE b
Rest(s, n) == SubSeq(s, Least(n, Len(s)) + 1, Len(s))
Firsts(s, n) == SubSeq(s, 1, Least(n, Len(s)))

NoItem == [text |-> 0, id |-> NoId]

\* reserveDrainingQueuedInputs: a slot without a known item stays empty
Reserve(v, count) ==
  LET items == Firsts(v.queue, count) IN
  [v EXCEPT !.queue = Rest(@, count),
            !.draining = @ \o [i \in 1..count |->
                                 IF i <= Len(items) THEN items[i] ELSE NoItem]]

\* drainQueuedInputs
DrainInputs(v, count, turn) ==
  LET n == Least(count, Len(v.draining))
      IsItem(x) == x # NoItem
      reserved == SelectSeq(Firsts(v.draining, n), IsItem)
  IN [v EXCEPT !.queue = Rest(@, count - n),
               !.draining = Rest(@, n),
               !.live = AppendDrained(@, reserved \o Firsts(v.queue, count - n), turn)]

\* consumeQueuedInput: the first item with the text of the Turn
Consumed(items, text) ==
  LET at == {i \in DOMAIN items : items[i].text = text}
  IN IF at = {} THEN items ELSE RemoveAt(items, FirstOf(at))

\* settleTerminalQueuedInputs
SettleTerminal(v, turn) ==
  IF v.admission = turn THEN [v EXCEPT !.admission = 0]
  ELSE [v EXCEPT !.queue = <<>>, !.draining = <<>>, !.admission = 0]

-----------------------------------------------------------------------------
(* The read state (thread-read-state.ts) *)

LocalCompact == Message("compact", NoId, 0)
NotLocal(m) == m.role # "compact"

\* projectPendingCompact and clearLocalCompactMessages
ShowCompact(ms) == IF LocalCompact \in Range(ms) THEN ms ELSE Append(ms, LocalCompact)
HideCompact(ms) == SelectSeq(ms, NotLocal)

ShownMessages(v) == Range(v.data) \cup Range(v.live)
IsShown(v, id) == id # NoId /\ \E m \in ShownMessages(v) : m.id = id

\* eventTranscriptAlreadyLoaded
AlreadyLoaded(v, e) ==
  CASE e.type \in {"turn_started", "responded"} -> IsShown(v, e.id)
    [] e.type = "queued" ->
         IsShown(v, e.id) \/ \E x \in Range(v.queue) \cup Range(v.draining) : x.id = e.id
    [] e.type = "tool_requested" -> \E m \in ShownMessages(v) : e.call \in m.uses
    [] e.type = "tool_ended" -> \E m \in ShownMessages(v) : e.call \in m.results
    [] OTHER -> FALSE

\* projectLiveThreadEvent
Projected(v, e) ==
  LET known == \E m \in Range(v.live) : m.role = "user" /\ m.turn = e.turn
      item == [text |-> e.text, id |-> e.id]
  IN CASE e.type = "admitted" -> IF e.manual THEN [v EXCEPT !.admission = e.turn] ELSE v
       [] e.type = "turn_started" ->
            [v EXCEPT !.queue = IF known THEN @ ELSE Consumed(@, e.text),
                      !.live = AppendLiveTurn(@, e.turn, item, "event")]
       [] e.type = "llm_delta" -> [v EXCEPT !.live = AppendDelta(@, e.turn)]
       [] e.type = "llm_retry" -> [v EXCEPT !.live = ResetPartial(@, e.turn)]
       [] e.type = "responded" -> [v EXCEPT !.live = ApplyResponse(@, e)]
       [] e.type = "tool_requested" -> [v EXCEPT !.live = ToolRequestedTo(@, e.turn, e.call)]
       [] e.type = "tool_delta" -> [v EXCEPT !.live = ApplyToolResult(@, e, TRUE)]
       [] e.type = "tool_ended" -> [v EXCEPT !.live = ApplyToolResult(@, e, FALSE)]
       [] e.type = "queued" -> [v EXCEPT !.queue = Enqueued(@, item, e.count)]
       [] e.type = "draining" -> Reserve(v, e.count)
       [] e.type = "drained" -> DrainInputs(v, e.count, e.turn)
       [] e.type = "promoted" ->
            [v EXCEPT !.queue = Rest(@, 1),
                      !.live = IF v.queue = <<>> THEN @
                               ELSE AppendLiveTurn(@, e.turn, v.queue[1], "event")]
       [] e.type = "terminal" -> SettleTerminal(v, e.turn)
       [] e.type = "compact_started" ->
            [v EXCEPT !.live = ShowCompact(@),
                      !.admission = IF e.manual THEN e.turn ELSE @]
       [] e.type = "compact_ended" -> [v EXCEPT !.live = HideCompact(@)]

\* The refresh that an event asks for: "clear" drops the projection
RefreshOf(e) == CASE e.type = "terminal" -> "clear"
                  [] e.type = "compact_ended" -> "keep"
                  [] OTHER -> "none"

\* Mutant of Loaded: a preserving refresh keeps every live message
LoadedUnreconciled(v, data, kind) ==
  [v EXCEPT !.data = data, !.live = IF kind = "keep" THEN @ ELSE <<>>]

\* projectThreadLoaded, reconcilePersistedLiveMessages
Loaded(v, data, kind) ==
  LET ids == {m.id : m \in Range(data)}
      Unsaved(m) == m.id = NoId \/ m.id \notin ids
  IN [v EXCEPT !.data = data,
               !.live = IF kind = "keep" THEN SelectSeq(@, Unsaved) ELSE <<>>]

-----------------------------------------------------------------------------
(* The Engine's events *)

Event(type) == [type |-> type, turn |-> srv.turn, id |-> NoId, text |-> 0, count |-> 0,
                calls |-> {}, call |-> NoId, manual |-> FALSE]

Emits(e) == Len(feed) < MaxFeed /\ feed' = Append(feed, e)
Saves(m) == saved' = Append(saved, m)
To(at) == srv' = [srv EXCEPT !.at = at]
PageKept == UNCHANGED <<posts, spent, view, get, clean>>

SavedInput(item, turn) == UserMessage(item, turn)
Call(k) == <<srv.turn, srv.round, k>>
Batch == {Call(k) : k \in 1..BatchCalls}

\* AdmitTurn of a POST: at once a Turn, or a place in the queue.  In the
\* terminal publication the queued event follows the terminal one.
PostTurn ==
  /\ srv.at = "idle" /\ spent.posts < MaxPosts
  /\ LET n == spent.posts + 1
         t == spent.turns + 1
         item == [text |-> TextOf(n), id |-> InputId(n)]
     IN /\ spent' = [spent EXCEPT !.posts = n, !.turns = t]
        /\ srv' = [srv EXCEPT !.at = "starting", !.turn = t, !.round = 0, !.manual = FALSE,
                              !.input = item]
        /\ posts' = posts \cup {[text |-> item.text, id |-> item.id, turn |-> t, count |-> 0]}
        /\ Emits([Event("admitted") EXCEPT !.turn = t])
  /\ UNCHANGED <<saved, view, get, clean>>

PostQueued ==
  /\ srv.at \in {"iterate", "asked", "batch", "closing", "compacting"}
  /\ spent.posts < MaxPosts
  /\ LET n == spent.posts + 1
         item == [text |-> TextOf(n), id |-> InputId(n)]
         count == Len(srv.pending) + 1
     IN /\ spent' = [spent EXCEPT !.posts = n]
        /\ srv' = [srv EXCEPT !.pending = Append(@, item)]
        /\ posts' = posts \cup {[text |-> item.text, id |-> item.id, turn |-> 0, count |-> count]}
        /\ Emits([Event("queued") EXCEPT !.id = item.id, !.text = item.text, !.count = count])
  /\ UNCHANGED <<saved, view, get, clean>>

\* recordTurnStartLocked: saved first, then announced
SaveInput ==
  /\ srv.at = "starting" /\ To("started")
  /\ Saves(SavedInput(srv.input, srv.turn))
  /\ UNCHANGED feed /\ PageKept

TurnStarted ==
  /\ srv.at = "started" /\ To("iterate")
  /\ Emits([Event("turn_started") EXCEPT !.id = srv.input.id, !.text = srv.input.text])
  /\ UNCHANGED saved /\ PageKept

\* beginPendingInputDrain, its messages, finishPendingInputDrain
DrainBegins ==
  /\ srv.at = "iterate" /\ srv.pending # <<>>
  /\ srv' = [srv EXCEPT !.at = "draining", !.moved = srv.pending, !.pending = <<>>]
  /\ Emits([Event("draining") EXCEPT !.count = Len(srv.pending)])
  /\ UNCHANGED saved /\ PageKept

DrainSaves ==
  /\ srv.at = "draining" /\ To("drained")
  /\ saved' = saved \o [i \in DOMAIN srv.moved |-> SavedInput(srv.moved[i], srv.turn)]
  /\ UNCHANGED feed /\ PageKept

DrainEnds ==
  /\ srv.at = "drained"
  /\ srv' = [srv EXCEPT !.at = "iterate", !.moved = <<>>]
  /\ Emits([Event("drained") EXCEPT !.count = Len(srv.moved)])
  /\ UNCHANGED saved /\ PageKept

Ask ==
  /\ srv.at = "iterate" /\ srv.pending = <<>> /\ srv.round < MaxRounds
  /\ srv' = [srv EXCEPT !.at = "asked", !.round = @ + 1]
  /\ UNCHANGED <<saved, feed>> /\ PageKept

\* llm.output_delta is transient; llm.retry follows a failed attempt
StreamsOutput ==
  /\ srv.at = "asked" /\ ~srv.streamed
  /\ srv' = [srv EXCEPT !.streamed = TRUE]
  /\ Emits(Event("llm_delta"))
  /\ UNCHANGED saved /\ PageKept

Retries ==
  /\ srv.at = "asked" /\ srv.streamed
  /\ To("asked_again")
  /\ Emits(Event("llm_retry"))
  /\ UNCHANGED saved /\ PageKept

\* recordProviderResponse: saved first, then llm.responded
Responds(tools) ==
  /\ srv.at \in {"asked", "asked_again"}
  /\ srv' = [srv EXCEPT !.at = "answered", !.streamed = FALSE,
                        !.todo = IF tools THEN Batch ELSE {}]
  /\ Saves([Message("assistant", AssistantId(srv.turn, srv.round), srv.turn)
              EXCEPT !.uses = IF tools THEN Batch ELSE {}])
  /\ UNCHANGED feed /\ PageKept

Responded ==
  /\ srv.at = "answered"
  /\ To(IF srv.todo = {} THEN "finishing" ELSE "batch")
  /\ Emits([Event("responded") EXCEPT !.id = AssistantId(srv.turn, srv.round),
                                      !.calls = srv.todo])
  /\ UNCHANGED saved /\ PageKept

\* Calls of the batch: requested, provisional output, outcome
ToolStarts(c) ==
  /\ srv.at = "batch" /\ c \in srv.todo
  /\ srv' = [srv EXCEPT !.todo = @ \ {c}, !.running = @ \cup {c}]
  /\ Emits([Event("tool_requested") EXCEPT !.call = c])
  /\ UNCHANGED saved /\ PageKept

ToolOutputs(c) ==
  /\ srv.at = "batch" /\ c \in srv.running \ srv.talked
  /\ srv' = [srv EXCEPT !.talked = @ \cup {c}]
  /\ Emits([Event("tool_delta") EXCEPT !.call = c])
  /\ UNCHANGED saved /\ PageKept

ToolReturns(c) ==
  /\ srv.at = "batch" /\ c \in srv.running
  /\ srv' = [srv EXCEPT !.running = @ \ {c}, !.talked = @ \ {c}]
  /\ Emits([Event("tool_ended") EXCEPT !.call = c])
  /\ UNCHANGED saved /\ PageKept

\* The batch saves its results in one message
BatchSaved ==
  /\ srv.at = "batch" /\ srv.todo = {} /\ srv.running = {}
  /\ To("iterate")
  /\ Saves([Message("user", ResultsId(srv.turn, srv.round), srv.turn) EXCEPT !.results = Batch])
  /\ UNCHANGED feed /\ PageKept

\* /compact is admitted as a Turn of its own
AdmitCompact ==
  /\ srv.at = "idle" /\ spent.compacts < MaxPageCompacts
  /\ spent' = [spent EXCEPT !.turns = @ + 1]
  /\ srv' = [srv EXCEPT !.at = "manual", !.turn = spent.turns + 1, !.manual = TRUE]
  /\ Emits([Event("admitted") EXCEPT !.turn = spent.turns + 1, !.manual = TRUE])
  /\ UNCHANGED <<saved, posts, view, get, clean>>

\* context.compact.*: the summary is saved between
CompactStarts ==
  /\ spent.compacts < MaxPageCompacts
  /\ srv.at = "manual" \/ (srv.at = "iterate" /\ srv.round < MaxRounds)
  /\ spent' = [spent EXCEPT !.compacts = @ + 1]
  /\ To("compacting")
  /\ Emits([Event("compact_started") EXCEPT !.manual = srv.at = "manual"])
  /\ UNCHANGED <<saved, posts, view, get, clean>>

CompactSaves ==
  /\ srv.at = "compacting" /\ To("compacted")
  /\ Saves(Message("summary", <<"summary", spent.compacts>>, srv.turn))
  /\ UNCHANGED feed /\ PageKept

CompactEnds ==
  /\ srv.at = "compacted"
  /\ To(IF srv.manual THEN "finishing" ELSE "iterate")
  /\ Emits(Event("compact_ended"))
  /\ UNCHANGED saved /\ PageKept

\* finishOrContinueLocked; turn.completed or turn.errored
Finishes ==
  /\ srv.at = "finishing" \/ (srv.at = "iterate" /\ srv.round = MaxRounds)
  /\ srv.at = "iterate" => srv.pending = <<>>
  /\ IF srv.pending # <<>> /\ ~srv.manual
     THEN To("iterate") /\ UNCHANGED feed
     ELSE To("closing") /\ Emits(Event("terminal"))
  /\ UNCHANGED saved /\ PageKept

\* completeTurnTerminal: idle, or the first queued input is the next Turn
Closes ==
  /\ srv.at = "closing" /\ srv.pending = <<>> /\ To("idle")
  /\ UNCHANGED <<saved, feed>> /\ PageKept

Promotes ==
  /\ srv.at = "closing" /\ srv.pending # <<>>
  /\ spent' = [spent EXCEPT !.turns = @ + 1]
  /\ srv' = [srv EXCEPT !.at = "starting", !.turn = spent.turns + 1, !.round = 0,
                        !.manual = FALSE, !.input = Head(srv.pending), !.pending = Tail(@)]
  /\ Emits([Event("promoted") EXCEPT !.turn = spent.turns + 1])
  /\ UNCHANGED <<saved, posts, view, get, clean>>

-----------------------------------------------------------------------------
(* The page *)

NoGet == [kind |-> "none", read |-> FALSE, data |-> <<>>, calm |-> FALSE]
Refresh(kind) == [NoGet EXCEPT !.kind = kind]

\* The inputs whose answer is too late once this event was projected
ConsumesPost(e, p) ==
  \/ e.type = "terminal" /\ p.turn = e.turn
  \/ e.type \in {"draining", "promoted", "terminal"} /\ p.turn = 0

\* onEvent: projectLiveBrowserEvent and its effects.  clean is lost when a
\* GET that was read before the event is answered after it.
Receive ==
  /\ feed # <<>>
  /\ LatePosts \/ \A p \in posts : ~ConsumesPost(Head(feed), p)
  /\ LET e == Head(feed) IN
     /\ feed' = Tail(feed)
     /\ IF AlreadyLoaded(view, e) THEN UNCHANGED <<view, get>>
        ELSE /\ view' = Projected(view, e)
             /\ get' = IF RefreshOf(e) = "none" THEN [get EXCEPT !.calm = FALSE]
                       ELSE Refresh(RefreshOf(e))
  /\ UNCHANGED <<srv, saved, posts, spent, clean>>

\* handleThreadShow reads the messages; the page answers later
GetReads ==
  /\ get.kind # "none" /\ ~get.read
  /\ get' = [get EXCEPT !.read = TRUE, !.data = saved, !.calm = srv.at = "idle" /\ feed = <<>>]
  /\ UNCHANGED <<srv, saved, feed, posts, spent, view, clean>>

GetAnswers ==
  /\ get.read
  /\ view' = Loaded(view, get.data, get.kind)
  /\ clean' = (get.calm /\ (get.kind = "clear" \/ view.live = <<>>))
  /\ get' = NoGet
  /\ UNCHANGED <<srv, saved, feed, posts, spent>>

\* submitPrompt, projectStartTurnSucceeded
PostAnswers(p) ==
  /\ p \in posts /\ posts' = posts \ {p}
  /\ LET item == [text |-> p.text, id |-> NoId] IN
     view' = IF p.turn = 0 THEN [view EXCEPT !.queue = Enqueued(@, item, p.count)]
             ELSE [view EXCEPT !.live = AppendLiveTurn(@, p.turn, item, "optimistic")]
  /\ UNCHANGED <<srv, saved, feed, spent, get, clean>>

\* The stream breaks and opens again: the durable events after the cursor
\* follow; onOpen refreshes and supersedes any other refresh
Transient(e) == e.type \in {"llm_delta", "tool_delta"}

Reopens ==
  /\ spent.openings < MaxOpenings
  /\ spent' = [spent EXCEPT !.openings = @ + 1]
  /\ LET Durable(e) == ~Transient(e) IN feed' = SelectSeq(feed, Durable)
  /\ get' = Refresh("keep")
  /\ clean' = FALSE
  /\ UNCHANGED <<srv, saved, posts, view>>

-----------------------------------------------------------------------------
LPInit ==
  /\ srv = [at |-> "idle", turn |-> 0, round |-> 0, manual |-> FALSE, input |-> NoItem,
            pending |-> <<>>, moved |-> <<>>, todo |-> {}, running |-> {}, talked |-> {}, streamed |-> FALSE]
  /\ saved = <<>> /\ feed = <<>> /\ posts = {}
  /\ spent = [posts |-> 0, openings |-> 0, compacts |-> 0, turns |-> 0]
  /\ view = [data |-> <<>>, live |-> <<>>, queue |-> <<>>, draining |-> <<>>, admission |-> 0]
  /\ get = NoGet /\ clean = TRUE

LPNext ==
  \/ PostTurn \/ PostQueued \/ SaveInput \/ TurnStarted
  \/ DrainBegins \/ DrainSaves \/ DrainEnds
  \/ Ask \/ StreamsOutput \/ Retries \/ Responded \/ \E b \in BOOLEAN : Responds(b)
  \/ \E c \in srv.todo \cup srv.running : ToolStarts(c) \/ ToolOutputs(c) \/ ToolReturns(c)
  \/ BatchSaved
  \/ CompactSaves \/ CompactEnds \/ AdmitCompact \/ CompactStarts
  \/ Finishes \/ Closes \/ Promotes
  \/ Receive \/ GetReads \/ GetAnswers \/ Reopens
  \/ \E p \in posts : PostAnswers(p)

LPSpec == LPInit /\ [][LPNext]_lpvars

-----------------------------------------------------------------------------
LPTypeOK ==
  /\ srv.at \in {"idle", "starting", "started", "iterate", "draining", "drained", "asked",
                 "asked_again", "answered", "batch", "finishing", "closing", "compacting",
                 "compacted", "manual"}
  /\ Len(feed) <= MaxFeed
  /\ get.kind \in {"none", "clear", "keep"}
  /\ \A m \in ShownMessages(view) : m.role \in {"user", "assistant", "summary", "compact"}

\* What the page shows of the saved messages: a live tool result has no id of
\* its own and stands for the message its batch saves
ShownId(m) ==
  IF m.role = "user" /\ m.text = 0 /\ m.results # {}
  THEN LET c == CHOOSE c \in m.results : TRUE IN ResultsId(c[1], c[2])
  ELSE m.id
Visible(m) == ~m.pending /\ m.role # "compact"
Ids(ms) == [i \in DOMAIN ms |-> ShownId(ms[i])]
Transcript(v) == Ids(v.data \o SelectSeq(v.live, Visible))

\* The Engine stands between saving a message and announcing it, or the
\* results of a batch are announced and not yet saved
Midway == srv.at \in {"starting", "started", "draining", "drained", "answered", "batch",
                      "compacted", "compacting"}

CaughtUp == feed = <<>> /\ get.kind = "none" /\ posts = {}

\* With every event projected, on a connection whose refreshes saw an idle
\* Thread, the page shows exactly the saved messages in their order and the
\* inputs that wait, whichever of POST answer and event came first.
LiveExact ==
  clean /\ CaughtUp /\ ~Midway =>
    /\ Transcript(view) = Ids(saved)
    /\ [i \in DOMAIN view.queue |-> view.queue[i].text] =
         [i \in DOMAIN srv.pending |-> srv.pending[i].text]

\* After the last refresh of an idle Thread nothing is missing or shown
\* twice under its id, and no input seems to wait, whatever crossed.
RestComplete ==
  CaughtUp /\ srv.at = "idle" =>
    /\ view.data = saved
    /\ \A m \in Range(view.live) : m.id \notin {x.id : x \in Range(saved)}
    /\ ~LatePosts => view.queue = <<>> /\ view.draining = <<>>

\* live-thread-projection.ts and its callers keep the transcript (DESIGN.md:
\* "replayed and live records merge idempotently").
LivePageSafe == LiveExact /\ RestComplete

\* DESIGN.md: "durable terminal content replaces provisional streaming
\* content": once a call has ended and its event was projected, the page no
\* longer marks its result as streaming.  This does not hold: AlreadyLoaded
\* takes the streamed output for the result, and the event is not projected.
TerminalReplacesStreamed ==
  feed = <<>> =>
    \A m \in Range(view.live) : m.streaming \subseteq srv.running
=============================================================================
