--------------------------- MODULE ProviderStreams ---------------------------
(***************************************************************************)
(* Provider adapters: how a Thread's history becomes one request of a      *)
(* model provider and how the streamed answer becomes one Response         *)
(* (internal/providers, internal/foundation/llm).  The model follows       *)
(*   - the profile a configuration resolves to (ResolveProfile);           *)
(*   - the projection and validation of the history (BuildProviderContext) *)
(*     and the three encodings of it;                                      *)
(*   - the attempts of a request: read errors, the idle timer, the retries *)
(*     of the SSE transports, cancellation, and the fallback from the      *)
(*     websocket to SSE;                                                   *)
(*   - the Codex websocket, one connection of an Agent that its Threads    *)
(*     share: after the first request only the new input is sent, with     *)
(*     the id of the response it continues;                                *)
(*   - the runtime's use of the result, its discard after a cancellation,  *)
(*     and the next model of the chain.                                    *)
(* The server is external: it answers with the items of an Answer, may     *)
(* fail at any point, and with store=false it knows a response only on the *)
(* connection that produced it.                                            *)
(*                                                                         *)
(* A block is [kind, id]; ids tell every text, call and result apart, and  *)
(* a result carries the id of its call.                                    *)
(***************************************************************************)
EXTENDS Naturals, Sequences, SequencesExt, FiniteSetsExt, TLC

CONSTANTS Threads,           \* the Threads that share the provider
          Configs,           \* provider configurations to resolve, each with the
                             \* bounds of its workload: requests and faults
          Answers,           \* sequences of item kinds the server produces
          MaxRetries,        \* ProviderMaxRetries (10 in the code)
          MaxSummaries       \* bound: compactions of a Thread

ASSUME ProviderBounds ==
    /\ {MaxRetries, MaxSummaries} \subseteq Nat
    /\ \A c \in Configs : /\ {c.requests, c.faults} \subseteq Nat
                           /\ c.sharers \subseteq Threads

VARIABLES profile,   \* the resolved profile
          convo,     \* [Threads -> history]
          req,       \* [Threads -> the provider request in flight]
          ws,        \* codexResponsesWebsocketTransport
          served,    \* external: responses the server knows on the connection
          asked,     \* [Threads -> requests made]
          renewed,   \* [Threads -> compactions, the Generation of the Thread]
          mishaps    \* faults injected so far

psvars == <<profile, convo, req, ws, served, asked, renewed, mishaps>>

-----------------------------------------------------------------------------
(* The profile.                                                            *)

presetProtocol ==
    [anthropic |-> "anthropic/messages", openai |-> "openai/responses",
     codex |-> "openai-codex/responses", deepseek |-> "openai/chat"]

\* A known id has a fixed protocol; a custom provider needs one, and Codex is
\* reserved for its preset.
baseProfile(c) ==
    IF c.id \in DOMAIN presetProtocol
    THEN IF c.protocol \in {"", presetProtocol[c.id]}
         THEN presetProtocol[c.id] ELSE "refused"
    ELSE IF c.protocol \in {"", "openai-codex/responses"}
         THEN "refused" ELSE c.protocol

\* Every preset and custom profile has tools, streaming and reasoning replay
\* and no vision; the configuration overrides them one by one.
applyCapabilityOverrides(c) ==
    [cap \in {"tools", "streaming", "replay", "vision"} |->
        IF cap \in DOMAIN c.overrides THEN c.overrides[cap] ELSE cap # "vision"]

ResolveProfile(c) ==
    [protocol |-> baseProfile(c),
     caps |-> applyCapabilityOverrides(c),
     transport |-> IF c.transport = "" THEN "sse" ELSE c.transport,
     headers |-> c.headers,
     sharers |-> c.sharers, requests |-> c.requests, faults |-> c.faults,
     fallback |-> c.fallback]

\* RenderHeaders: templates name the Thread or its Generation.
RenderHeaders(t) ==
    CASE profile.headers = "fixed" -> <<>>
      [] profile.headers = "thread" -> <<t>>
      [] profile.headers = "generation" -> <<t, renewed[t]>>

-----------------------------------------------------------------------------
(* The history the provider sees.                                          *)

IsCall(b) == b.kind = "call"
IsResult(b) == b.kind \in {"result", "picture"}
Blocks(ms) == FlattenSeq([i \in 1..Len(ms) |-> ms[i].blocks])
IdsOf(bs) == [i \in 1..Len(bs) |-> bs[i].id]

shouldProjectProviderBlock(b, omitReasoning) ==
    CASE b.kind \in {"text", "image"} -> TRUE
      [] IsCall(b) \/ IsResult(b) -> profile.caps["tools"]
      [] b.kind = "reasoning" -> ~omitReasoning /\ profile.caps["replay"]

\* Without vision an image becomes a text that names it, and a tool result
\* keeps a reference instead of its image.
projectProviderBlock(b) ==
    IF profile.caps["vision"] THEN b
    ELSE [b EXCEPT !.kind = CASE @ = "image" -> "text"
                              [] @ = "picture" -> "result"
                              [] OTHER -> @]

\* Messages left without a block disappear and neighbours of one role merge.
compactHistoryForProvider(ms) ==
    FoldLeft(LAMBDA out, m :
                 IF m.blocks = <<>> THEN out
                 ELSE IF out # <<>> /\ Last(out).role = m.role
                 THEN [out EXCEPT ![Len(out)].blocks = @ \o m.blocks]
                 ELSE Append(out, m),
             <<>>, ms)

projectProviderTranscript(ms, omitReasoning) ==
    LET Project(m) ==
            LET kept == SelectSeq(m.blocks,
                            LAMBDA b : shouldProjectProviderBlock(b, omitReasoning))
            IN [m EXCEPT !.blocks =
                    [i \in 1..Len(kept) |-> projectProviderBlock(kept[i])]]
    IN compactHistoryForProvider([i \in 1..Len(ms) |-> Project(ms[i])])

\* Every call is answered before anything else follows it.
ValidateToolTranscript(ms) ==
    LET Fold(acc, b) ==
            IF IsCall(b) THEN [acc EXCEPT !.pending = @ \union {b.id},
                                          !.ok = @ /\ ~acc.late]
            ELSE IF IsResult(b)
            THEN [acc EXCEPT !.pending = @ \ {b.id},
                             !.ok = @ /\ b.id \in acc.pending]
            ELSE [acc EXCEPT !.ok = @ /\ ~(acc.late /\ acc.pending # {})]
        OfMessage(acc, m) ==
            FoldLeft(Fold, [acc EXCEPT !.late = acc.pending # {}], m.blocks)
        end == FoldLeft(OfMessage, [pending |-> {}, late |-> FALSE, ok |-> TRUE], ms)
    IN end.ok /\ end.pending = {}

-----------------------------------------------------------------------------
(* The encodings.  An item is [kind, role, ids].                           *)

Item(kind, role, ids) == [kind |-> kind, role |-> role, ids |-> ids]

\* appendResponseMessage: the run of texts and images since the last flush.
appendResponseMessage(out, role, run) ==
    IF run = <<>> THEN out ELSE Append(out, Item("message", role, run))

\* The Responses input: a message per run, calls, outputs and reasoning as
\* items of their own, the image of a result as a user message after it.
encodeOpenAIResponseInput(ms) ==
    LET Block(role, acc, b) ==
            IF b.kind \in {"text", "image"} THEN [acc EXCEPT !.run = Append(@, b.id)]
            ELSE LET out == appendResponseMessage(acc.out, role, acc.run)
                 IN [run |-> <<>>,
                     out |-> CASE IsCall(b) -> Append(out, Item("call", role, <<b.id>>))
                               [] b.kind = "result" ->
                                      Append(out, Item("output", role, <<b.id>>))
                               [] b.kind = "picture" ->
                                      out \o <<Item("output", role, <<b.id>>),
                                               Item("message", "user", <<b.id>>)>>
                               [] b.kind = "reasoning" ->
                                      Append(out, Item("reasoning", role, <<b.id>>))]
        Message(out, m) ==
            LET acc == FoldLeft(LAMBDA a, b : Block(m.role, a, b),
                                [out |-> out, run |-> <<>>], m.blocks)
            IN appendResponseMessage(acc.out, m.role, acc.run)
    IN FoldLeft(Message, <<>>, ms)

\* The Chat messages: one per assistant message with its calls, one tool
\* message per result.  Images of results are user messages held back until
\* the tool messages are written.
toOpenAIMessages(ms) ==
    LET Flush(out, run) == appendResponseMessage(out, "user", run)
        UserBlock(acc, b) ==
            IF IsResult(b)
            THEN [out |-> Append(Flush(acc.out, acc.run), Item("tool", "tool", <<b.id>>)),
                  run |-> <<>>,
                  deferred |-> IF b.kind = "picture"
                               THEN Append(acc.deferred, Item("message", "user", <<b.id>>))
                               ELSE acc.deferred]
            ELSE [out |-> acc.out \o acc.deferred, deferred |-> <<>>,
                  run |-> Append(acc.run, b.id)]
        OfUser(out, m) ==
            LET acc == FoldLeft(UserBlock, [out |-> out, run |-> <<>>, deferred |-> <<>>],
                                m.blocks)
            IN Flush(acc.out \o acc.deferred, acc.run)
        OfAssistant(out, m) == Append(out, Item("assistant", "assistant", IdsOf(m.blocks)))
    IN FoldLeft(LAMBDA out, m : IF m.role = "user" THEN OfUser(out, m)
                                ELSE OfAssistant(out, m), <<>>, ms)

\* The Messages request keeps the messages and their blocks.
toAnthropicMessages(ms) ==
    [i \in 1..Len(ms) |-> Item("message", ms[i].role, IdsOf(ms[i].blocks))]

IsCodex == profile.protocol = "openai-codex/responses"

(* CompleteWithOptions of the four adapters: where a request starts.       *)
CodexRequest(ms) ==
    [input |-> encodeOpenAIResponseInput(ms),
     via |-> IF profile.transport = "sse" THEN "sse" ELSE "ws",
     pc |-> IF profile.transport = "sse" THEN "open" ELSE "lock"]

ResponsesRequest(ms) ==
    [input |-> encodeOpenAIResponseInput(ms), via |-> "responses", pc |-> "open"]

ChatRequest(ms) == [input |-> toOpenAIMessages(ms), via |-> "chat", pc |-> "open"]

MessagesRequest(ms) ==
    [input |-> toAnthropicMessages(ms), via |-> "messages", pc |-> "open"]

\* NewProvider: the adapter of the protocol.
NewProvider(ms) ==
    CASE IsCodex -> CodexRequest(ms)
      [] profile.protocol = "openai/responses" -> ResponsesRequest(ms)
      [] profile.protocol = "openai/chat" -> ChatRequest(ms)
      [] profile.protocol = "anthropic/messages" -> MessagesRequest(ms)

\* What a server reads of an input, whatever its partition into items.
Read(input) ==
    FlattenSeq([i \in 1..Len(input) |->
        [j \in 1..Len(input[i].ids) |-> <<input[i].kind = "call",
            input[i].role, input[i].ids[j]>>]])

-----------------------------------------------------------------------------
(* The request.                                                            *)

NoRequest ==
    [pc |-> "idle", params |-> "turn", input |-> <<>>, via |-> "", attempt |-> 0,
     idle |-> 0, frame |-> [prev |-> 0, input |-> <<>>], begun |-> FALSE,
     answer |-> <<>>, seen |-> 0, final |-> FALSE, shown |-> FALSE,
     expired |-> FALSE, cancelled |-> FALSE, understood |-> <<>>, err |-> "",
     result |-> <<>>, stop |-> ""]

Closed == [conn |-> 0, headers |-> <<>>, lastParams |-> "", lastBaseline |-> <<>>,
           lastResponseID |-> 0]
Unconnected(w) == [Closed EXCEPT !.conn = 0] @@ [lock |-> w.lock, dials |-> w.dials,
                                               replies |-> w.replies]

PSInit ==
    /\ \E c \in Configs : /\ profile = ResolveProfile(c)
                          /\ baseProfile(c) # "refused"
    /\ convo = [t \in Threads |-> <<>>]
    /\ req = [t \in Threads |-> NoRequest]
    /\ ws = Closed @@ [lock |-> {}, dials |-> 0, replies |-> 0]
    /\ served = {}
    /\ asked = [t \in Threads |-> 0]
    /\ renewed = [t \in Threads |-> 0]
    /\ mishaps = 0

Mishap == mishaps < profile.faults /\ mishaps' = mishaps + 1
Fine == UNCHANGED mishaps
Elsewhere == UNCHANGED <<profile, convo, asked, renewed>>
AskedAll == MapThenSumSet(LAMBDA t : asked[t], Threads)
Sets(t, r) == req' = [req EXCEPT ![t] = r]

\* The runtime has a new input for an idle Thread.
UserInput(t, kind) ==
    /\ req[t].pc = "idle" /\ AskedAll < profile.requests
    /\ IF convo[t] = <<>> \/ Last(convo[t]).role = "assistant" THEN TRUE
       ELSE Last(Last(convo[t]).blocks).id[2] # asked[t]
    /\ convo' = [convo EXCEPT ![t] = Append(@, [role |-> "user", blocks |->
                    <<[kind |-> kind, id |-> <<t, asked[t], 0, 0>>]>>])]
    /\ UNCHANGED <<profile, req, ws, served, asked, renewed, mishaps>>

\* CompleteWithOptions up to its first attempt, for a Turn or for a summary.
Request(t, params) ==
    LET ms == projectProviderTranscript(convo[t], IsCodex)
        first == NewProvider(ms)
    IN /\ req[t].pc = "idle" /\ AskedAll < profile.requests
       /\ convo[t] # <<>> /\ Last(convo[t]).role = "user"
       /\ params = "summary" => renewed[t] < MaxSummaries
       /\ Sets(t, [NoRequest EXCEPT
                      !.params = params, !.input = first.input, !.via = first.via,
                      !.pc = IF ValidateToolTranscript(ms) THEN first.pc ELSE "failed",
                      !.err = IF ValidateToolTranscript(ms) THEN "" ELSE "transcript"])
       /\ asked' = [asked EXCEPT ![t] = @ + 1]
       /\ UNCHANGED <<profile, convo, ws, served, renewed, mishaps>>

Underway(t) == req[t].pc \in {"lock", "write", "open", "reading", "wait"}

\* The caller's context is cancelled.
Cancel(t) ==
    /\ Underway(t) /\ ~req[t].cancelled
    /\ Mishap
    /\ Sets(t, [req[t] EXCEPT !.cancelled = TRUE])
    /\ UNCHANGED <<ws, served>> /\ Elsewhere

-----------------------------------------------------------------------------
(* The outcome of an attempt.                                              *)

\* What one attempt starts with.
Fresh(r) == [r EXCEPT !.begun = FALSE, !.answer = <<>>, !.result = <<>>, !.seen = 0,
                      !.final = FALSE, !.expired = FALSE, !.stop = ""]

Fails(r, class) == [r EXCEPT !.pc = "failed", !.err = class]
Retries(r) == [Fresh(r) EXCEPT !.pc = "wait", !.attempt = @ + 1]

codexSSEIdleMaxAttempts == 2
openAIResponsesIdleMaxAttempts == 2

\* completeSSE: the idle timer has its own count; other read errors are tried
\* again until the attempts are used up.
AfterSSE(r, class) ==
    IF r.expired
    THEN IF r.cancelled THEN Fails(r, "canceled")
         ELSE IF r.idle + 1 >= codexSSEIdleMaxAttempts THEN Fails(r, "idle")
         ELSE [Retries(r) EXCEPT !.idle = @ + 1]
    ELSE IF r.cancelled \/ class # "read" THEN Fails(r, class)
    ELSE IF r.attempt + 1 >= MaxRetries + 1 THEN Fails(r, "read")
    ELSE Retries(r)

\* completeStreaming of the Responses API tries again after silence only; an
\* error event is never taken for it.
AfterResponses(r, class) ==
    IF class = "event" \/ ~r.expired THEN Fails(r, class)
    ELSE IF r.cancelled THEN Fails(r, "canceled")
    ELSE IF r.attempt + 1 >= openAIResponsesIdleMaxAttempts THEN Fails(r, "idle")
    ELSE Retries(r)

\* A Chat stream makes one attempt.
AfterChat(r, class) ==
    Fails(r, IF class = "read" /\ r.expired THEN "idle" ELSE class)

\* So does a Messages stream; an event the accumulator refuses is a parse
\* error whether or not the timer has expired.
AfterMessages(r, class) ==
    Fails(r, CASE class = "event" -> "parse"
               [] class = "read" /\ r.expired -> "idle"
               [] OTHER -> class)

\* The websocket attempt; "auto" goes on with SSE whatever the error.
AfterWebsocket(r, class) ==
    IF profile.transport = "auto" THEN [Fresh(r) EXCEPT !.pc = "open", !.via = "sse"]
    ELSE Fails(r, IF r.expired THEN "idle" ELSE class)

AfterError(r, class) ==
    CASE r.via = "ws" -> AfterWebsocket(r, class)
      [] r.via = "sse" -> AfterSSE(r, class)
      [] r.via = "responses" -> AfterResponses(r, class)
      [] r.via = "chat" -> AfterChat(r, class)
      [] r.via = "messages" -> AfterMessages(r, class)

\* closeLocked, and the unlock of Complete.
closeLocked == /\ ws' = [Unconnected(ws) EXCEPT !.lock = {}]
               /\ served' = {}

EndsAttempt(t, class) ==
    /\ Sets(t, AfterError(req[t], class))
    /\ IF req[t].via = "ws" THEN closeLocked ELSE UNCHANGED <<ws, served>>

-----------------------------------------------------------------------------
(* The websocket.                                                          *)

\* Complete takes the mutex, then ensureConnLocked: a connection with other
\* headers is closed first.
EnsureConn(t) ==
    LET stale == ws.conn # 0 /\ ws.headers # RenderHeaders(t)
        w == IF stale THEN Unconnected(ws) ELSE ws
    IN /\ req[t].pc = "lock" /\ ws.lock = {}
       /\ \/ /\ w.conn # 0
             /\ ws' = [w EXCEPT !.lock = {t}]
             /\ Sets(t, [req[t] EXCEPT !.pc = "write"])
             /\ UNCHANGED served /\ Fine
          \/ /\ w.conn = 0 /\ ~req[t].cancelled
             /\ ws' = [w EXCEPT !.lock = {t}, !.conn = ws.dials + 1, !.dials = @ + 1,
                                !.headers = RenderHeaders(t)]
             /\ Sets(t, [req[t] EXCEPT !.pc = "write"])
             /\ served' = {} /\ Fine
          \/ /\ w.conn = 0
             /\ IF req[t].cancelled THEN Fine ELSE Mishap
             /\ ws' = w
             /\ Sets(t, AfterWebsocket(req[t], IF req[t].cancelled THEN "canceled"
                                               ELSE "dial"))
             /\ served' = {}
       /\ Elsewhere

\* Mutant of Continues: only the length of the baseline is compared.
ContinuesByLength(r) ==
    /\ ws.lastResponseID # 0 /\ ws.lastBaseline # <<>>
    /\ ws.lastParams = r.params
    /\ Len(ws.lastBaseline) <= Len(r.input)

\* codexResponsesWebsocketDelta: equal parameters and the baseline a prefix.
Continues(r) ==
    /\ ws.lastResponseID # 0 /\ ws.lastBaseline # <<>>
    /\ ws.lastParams = r.params
    /\ IsPrefix(ws.lastBaseline, r.input)

prepareFrameLocked(r) ==
    IF Continues(r)
    THEN [prev |-> ws.lastResponseID,
          input |-> SubSeq(r.input, Len(ws.lastBaseline) + 1, Len(r.input))]
    ELSE [prev |-> 0, input |-> r.input]

WriteFrame(t) ==
    /\ req[t].pc = "write"
    /\ \/ /\ ~req[t].cancelled
          /\ Sets(t, [Fresh(req[t]) EXCEPT !.pc = "reading",
                                           !.frame = prepareFrameLocked(req[t])])
          /\ UNCHANGED <<ws, served>> /\ Fine
       \/ /\ IF req[t].cancelled THEN Fine ELSE Mishap
          /\ EndsAttempt(t, IF req[t].cancelled THEN "canceled" ELSE "closed")
    /\ Elsewhere

\* NewStreaming, or the one call of a provider that does not stream; with a
\* cancelled context the SDK sends nothing.
OpenAttempt(t) ==
    /\ req[t].pc = "open"
    /\ IF req[t].cancelled THEN Sets(t, AfterError(Fresh(req[t]), "canceled"))
       ELSE Sets(t, [Fresh(req[t]) EXCEPT !.pc = "reading",
                        !.frame = [prev |-> 0, input |-> req[t].input]])
    /\ UNCHANGED <<ws, served>> /\ Fine /\ Elsewhere

\* waitCodexSSERetry: the delay, or the cancellation that ends it.
Waited(t) ==
    /\ req[t].pc = "wait"
    /\ Sets(t, IF req[t].cancelled THEN Fails(req[t], "canceled")
               ELSE [req[t] EXCEPT !.pc = "open"])
    /\ UNCHANGED <<ws, served>> /\ Fine /\ Elsewhere

-----------------------------------------------------------------------------
(* The server, and the loop that reads its events.                         *)

Reading(t) == req[t].pc = "reading"
Streaming == profile.caps["streaming"] \/ IsCodex

\* External: the server takes the request.  What it reads of it is the frame,
\* after the response the frame continues if the connection produced it.
Accepts(t, a) ==
    LET r == req[t]
        known == {s \in served : s.id = r.frame.prev}
        before == IF r.frame.prev = 0 THEN <<>>
                  ELSE IF known = {} THEN << <<FALSE, "unknown", <<t, 0, 0, 0>> >> >>
                  ELSE (CHOOSE s \in known : TRUE).context
    IN /\ Reading(t) /\ ~r.begun /\ ~r.cancelled
       /\ Sets(t, [r EXCEPT !.begun = TRUE, !.understood = before \o Read(r.frame.input),
              !.answer = [i \in 1..Len(a) |->
                  [kind |-> a[i], id |-> <<t, asked[t], r.attempt + 1, i>>]]])
       /\ UNCHANGED <<ws, served>> /\ Fine /\ Elsewhere

\* A delta goes to OnDelta at once.
Delta(t) ==
    /\ Reading(t) /\ Streaming /\ req[t].begun /\ ~req[t].shown
    /\ req[t].params = "turn"
    /\ req[t].seen < Len(req[t].answer)
    /\ Sets(t, [req[t] EXCEPT !.shown = TRUE])
    /\ UNCHANGED <<ws, served>> /\ Fine /\ Elsewhere

\* response.output_item.done, or the block the accumulator completes.
ItemDone(t) ==
    LET r == req[t]
    IN /\ Reading(t) /\ Streaming /\ r.begun /\ r.seen < Len(r.answer)
       /\ Sets(t, [r EXCEPT !.seen = @ + 1, !.result = Append(@, r.answer[r.seen + 1])])
       /\ UNCHANGED <<ws, served>> /\ Fine /\ Elsewhere

(* The Response of an answer: its stop reason.                             *)
HasCalls(items) == \E i \in 1..Len(items) : IsCall(items[i])

\* Responses: calls mean tool_use, and a cut answer max_tokens even with calls.
responseFromResponses(items, cut) ==
    IF cut THEN "max_tokens" ELSE IF HasCalls(items) THEN "tool_use" ELSE "end_turn"

\* Codex derives it in the same way.
responseFromCodexResponses(items, cut) == responseFromResponses(items, cut)

\* Chat and Messages map the finish reason the server sent, if it sent one.
responseFromChatCompletion(items, cut, final) ==
    IF final THEN responseFromResponses(items, cut) ELSE "other"

responseFromMessage(items, cut, final) ==
    IF final THEN responseFromResponses(items, cut) ELSE "other"

StopReason(r, items, cut, final) ==
    CASE r.via \in {"ws", "sse"} -> responseFromCodexResponses(items, cut)
      [] r.via = "responses" -> responseFromResponses(items, cut)
      [] r.via = "chat" -> responseFromChatCompletion(items, cut, final)
      [] r.via = "messages" -> responseFromMessage(items, cut, final)

\* The last response and its baseline: the input with the output encoded as
\* the history will encode it.
Remembers(w, r, items) ==
    LET output == SelectSeq(items, LAMBDA b : b.kind # "reasoning")
    IN [w EXCEPT !.lock = {}, !.replies = @ + 1, !.lastParams = r.params,
                 !.lastResponseID = w.replies + 1,
                 !.lastBaseline = r.input \o encodeOpenAIResponseInput(
                     <<[role |-> "assistant", blocks |-> output]>>)]

\* A Response is returned; the websocket keeps the connection unless its
\* transport is the plain one.
Returns(t, items, cut, final) ==
    LET r == req[t]
        output == SelectSeq(items, LAMBDA b : b.kind # "reasoning")
    IN /\ Sets(t, [r EXCEPT !.pc = "done", !.result = items,
                             !.stop = StopReason(r, items, cut, final)])
       /\ IF r.via # "ws" THEN UNCHANGED <<ws, served>>
          ELSE IF profile.transport = "websocket" THEN closeLocked
          ELSE /\ ws' = Remembers(ws, r, items)
               /\ served' = {[id |-> ws.replies + 1, context |->
                    r.understood \o [i \in 1..Len(output) |->
                        <<IsCall(output[i]), "assistant", output[i].id>>]]}

\* The final event; with an empty output the collected items are the output.
\* The websocket and Responses readers return at once, the others read on to
\* the end of the stream.  The answer may be cut by the output limit.
Final(t, cut) ==
    LET r == req[t]
        returnsNow == r.via \in {"ws", "responses"} \/ ~Streaming
    IN /\ Reading(t) /\ r.begun /\ ~r.final
       /\ r.seen = Len(r.answer) \/ ~Streaming
       /\ IF returnsNow
          THEN Returns(t, IF Streaming THEN r.result ELSE r.answer, cut, TRUE)
          ELSE /\ Sets(t, [r EXCEPT !.final = TRUE,
                                     !.stop = StopReason(r, r.result, cut, TRUE)])
               /\ UNCHANGED <<ws, served>>
       /\ (IF cut THEN Mishap ELSE Fine) /\ Elsewhere

(* The stream ends without an error: "" or the class of the failure.       *)
readCodexResponsesStream(r) == IF r.final \/ r.result # <<>> THEN "" ELSE "read"
completeStreamingAttempt(r) == IF r.result # <<>> THEN "" ELSE "closed"
chatStreamEnd(r) == IF r.final \/ r.result # <<>> THEN "" ELSE "closed"

\* What was collected is taken for the answer.  A Messages stream may end
\* without anything.
Ends(t) ==
    LET r == req[t]
        class == CASE r.via = "sse" -> readCodexResponsesStream(r)
                   [] r.via = "responses" -> completeStreamingAttempt(r)
                   [] r.via = "chat" -> chatStreamEnd(r)
                   [] r.via = "messages" -> ""
    IN /\ Reading(t) /\ Streaming /\ r.via # "ws" /\ ~r.cancelled
       /\ IF r.final THEN Fine ELSE Mishap
       /\ IF class = "" THEN Returns(t, r.result, r.stop = "max_tokens", r.final)
          ELSE EndsAttempt(t, class)
       /\ Elsewhere

\* The read fails: a broken connection, a cancelled context, the idle timer.
Breaks(t) ==
    LET r == req[t]
    IN /\ Reading(t)
       /\ IF r.cancelled \/ r.expired THEN Fine ELSE Mishap
       /\ EndsAttempt(t, IF r.cancelled THEN "canceled"
                         ELSE IF r.via = "ws" THEN "closed" ELSE "read")
       /\ Elsewhere

\* An error event, response.failed, an HTTP error before the stream, or an
\* event the accumulator refuses.
Refuses(t, class) ==
    /\ Reading(t) /\ Mishap
    /\ class = "http" => ~req[t].begun /\ req[t].via # "ws"
    /\ class = "event" => req[t].begun /\ Streaming
    /\ EndsAttempt(t, class)
    /\ Elsewhere

\* The idle timer cancels the stream; events already received may still be read.
Expires(t) ==
    /\ Reading(t) /\ Streaming /\ ~req[t].expired /\ Mishap
    /\ Sets(t, [req[t] EXCEPT !.expired = TRUE])
    /\ UNCHANGED <<ws, served>> /\ Elsewhere

-----------------------------------------------------------------------------
(* The runtime and the outcome.                                            *)

\* ClassifyFallbackError: transient failures and refused credentials.
ClassifyFallbackError(err) == err \in {"read", "idle", "closed", "dial", "http"}

\* A response after a cancellation is discarded.  Otherwise it joins the
\* history, with the results of its calls and perhaps a queued input.
Accepted(t, picture, queued) ==
    LET r == req[t]
        calls == SelectSeq(r.result, IsCall)
        results == [i \in 1..Len(calls) |->
            [kind |-> IF picture THEN "picture" ELSE "result", id |-> calls[i].id]]
        text == [role |-> "user", blocks |->
                    <<[kind |-> "text", id |-> <<t, asked[t], 0, 1>>]>>]
    IN /\ r.pc = "done" /\ r.params = "turn"
       /\ calls = <<>> => ~picture /\ ~queued
       /\ convo' = [convo EXCEPT ![t] =
            IF r.cancelled THEN @
            ELSE @ \o <<[role |-> "assistant", blocks |-> r.result]>>
                   \o (IF calls = <<>> THEN <<>>
                       ELSE <<[role |-> "user", blocks |-> results]>>)
                   \o (IF queued THEN <<text>> ELSE <<>>)]
       /\ Sets(t, NoRequest)
       /\ UNCHANGED <<profile, ws, served, asked, renewed, mishaps>>

\* A whole summary replaces the history and starts a Generation; one that was
\* cut by the output limit is refused.
Compacted(t) ==
    /\ req[t].pc = "done" /\ req[t].params = "summary"
    /\ Sets(t, NoRequest)
    /\ IF req[t].cancelled \/ req[t].stop = "max_tokens" \/ req[t].result = <<>>
       THEN UNCHANGED <<convo, renewed>>
       ELSE /\ renewed' = [renewed EXCEPT ![t] = @ + 1]
            /\ convo' = [convo EXCEPT ![t] = <<[role |-> "user", blocks |->
                    <<[kind |-> "text", id |-> <<t, asked[t], 0, 2>>]>>]>>]
    /\ UNCHANGED <<profile, ws, served, asked, mishaps>>

\* The request fails: the next model of the chain is asked when the error
\* allows it, otherwise the Turn ends.
Failed(t) ==
    LET r == req[t]
    IN /\ r.pc = "failed"
       /\ Sets(t, IF profile.fallback /\ r.params = "turn" /\ ClassifyFallbackError(r.err)
                  THEN [NoRequest EXCEPT !.pc = "fallback", !.shown = r.shown]
                  ELSE NoRequest)
       /\ UNCHANGED <<profile, convo, ws, served, asked, renewed, mishaps>>

\* The next model answers, through a provider of its own.
FallbackAnswers(t) ==
    /\ req[t].pc = "fallback"
    /\ convo' = [convo EXCEPT ![t] = Append(@, [role |-> "assistant", blocks |->
                    <<[kind |-> "text", id |-> <<t, asked[t], 0, 3>>]>>])]
    /\ Sets(t, NoRequest)
    /\ UNCHANGED <<profile, ws, served, asked, renewed, mishaps>>

PSNext ==
    \E t \in profile.sharers :
        \/ \E k \in {"text", "image"} : UserInput(t, k)
        \/ \E p \in {"turn", "summary"} : Request(t, p)
        \/ Cancel(t) \/ EnsureConn(t) \/ WriteFrame(t) \/ OpenAttempt(t) \/ Waited(t)
        \/ \E a \in Answers : Accepts(t, a)
        \/ Delta(t) \/ ItemDone(t) \/ Ends(t) \/ Breaks(t)
        \/ \E cut \in BOOLEAN : Final(t, cut)
        \/ \E c \in {"event", "http"} : Refuses(t, c)
        \/ Expires(t)
        \/ \E p, q \in BOOLEAN : Accepted(t, p, q)
        \/ Compacted(t) \/ Failed(t) \/ FallbackAnswers(t)

PSSpec == PSInit /\ [][PSNext]_psvars

-----------------------------------------------------------------------------
(* Properties.                                                             *)

PSTypeOK ==
    /\ mishaps \in 0..profile.faults
    /\ ws.conn \in 0..ws.dials /\ ws.lock \subseteq Threads
    /\ \A t \in Threads :
        /\ asked[t] \in 0..profile.requests /\ renewed[t] \in 0..MaxSummaries
        /\ req[t].pc \in {"idle", "lock", "write", "open", "reading", "wait", "done",
                          "failed", "fallback"}
        /\ req[t].seen \in 0..Len(req[t].answer)
        /\ (t \in ws.lock) <=> (req[t].via = "ws" /\ req[t].pc \in {"write", "reading"})

\* What the server reads is the input of the request, whole and in order:
\* a frame that sends only the new input continues a response of this very
\* connection whose context is the rest of the input, although Threads share
\* the connection, histories are compacted, and connections fail
\* (prepareFrameLocked, codexResponsesWebsocketDelta, closeLocked).
ContextExact ==
    \A t \in Threads :
        Reading(t) /\ req[t].begun => req[t].understood = Read(req[t].input)

\* A Response holds the items of one answer: those of the last attempt, all of
\* them in order unless its stream ended early, never items of an attempt that
\* failed before (readCodexResponsesStream, completeSSE).
OneAnswer ==
    \A t \in Threads :
        req[t].pc = "done" => IsPrefix(req[t].result, req[t].answer)

\* A request ends: the read errors and the idle timeouts are counted apart,
\* yet the attempts of one request stay within the retries and one more.
AttemptsBounded ==
    \A t \in Threads : /\ req[t].attempt <= MaxRetries + 1
                       /\ req[t].idle < codexSSEIdleMaxAttempts

Calls(ms) == {b.id : b \in {x \in Range(Blocks(ms)) : IsCall(x)}}

\* Where the encoded items hold the id, by kind.
Positions(input, kinds, id) ==
    {i \in 1..Len(input) : input[i].kind \in kinds /\ id \in Range(input[i].ids)}

\* Every call a provider is shown has its result where the protocol wants it:
\* Chat: in the tool messages right after the assistant message, none missing;
\* Messages: in the next message; Responses: in an output after the call.
ResultsPlaced ==
    \A t \in Threads :
        Reading(t) /\ profile.caps["tools"] =>
            LET input == req[t].input
                ids == Calls(convo[t])
                n(i) == Cardinality(Range(input[i].ids) \intersect ids)
            IN \A id \in ids :
                CASE profile.protocol = "openai/chat" ->
                       \E i \in Positions(input, {"assistant"}, id) :
                           Cardinality({j \in (i + 1)..(i + n(i)) :
                               j <= Len(input) /\ input[j].kind = "tool"
                               /\ Range(input[j].ids) \subseteq Range(input[i].ids)}) = n(i)
                  [] profile.protocol = "anthropic/messages" ->
                       \E i \in 1..(Len(input) - 1) :
                           id \in Range(input[i].ids) /\ id \in Range(input[i + 1].ids)
                  [] OTHER ->
                       \E i \in Positions(input, {"call"}, id) :
                           \E j \in Positions(input, {"output"}, id) : i < j

ProvidersSafe == ContextExact /\ OneAnswer /\ AttemptsBounded /\ ResultsPlaced

\* The comment of ClassifyFallbackError: whether streamed output was already
\* emitted "must be checked by the runtime before fallback".  This does not
\* hold: a failure after output falls back as any other.
NoFallbackAfterOutput ==
    \A t \in Threads : req[t].pc = "fallback" => ~req[t].shown
=============================================================================
