---------------------------- MODULE ToolProtocol ----------------------------
(***************************************************************************)
(* The provider-facing transcript of one Thread: a Turn's tool batches     *)
(* (internal/framework/runtime/loop.go, turn_lifecycle.go), the repair of  *)
(* calls left without a result (framework/thread/protocol_repair.go) and   *)
(* compaction, which replaces the transcript by a summary, retained inputs *)
(* and an execution tail (runtime/compact.go, contextbudget/select.go,     *)
(* context_projection.go, thread/generation_seed.go).  Appending a message *)
(* and committing an event each happen or fail as a whole, as EventStore   *)
(* shows; the process may end before any of them.                          *)
(***************************************************************************)
EXTENDS Naturals, Sequences, FiniteSets, FiniteSetsExt, SequencesExt, FaultModel

CONSTANTS
    SerialCalls,        \* the calls of tools with ToolExecutionSerial
    KeepRecent,         \* policy.KeepRecentTokens; a reference costs 1
    ManualCompaction,   \* /compact is used between Turns
    MaxCalls,           \* bound: tool calls and texts the model answers with
    MaxTurnInputs,      \* bound: inputs accepted
    MaxCompactions,     \* bound: compactions and renewals
    MaxProtocolFaults,  \* bound: failing appends and commits
    MaxProtocolDeaths   \* bound: process ends

ASSUME ProtocolBounds ==
    /\ {KeepRecent, MaxCalls, MaxTurnInputs, MaxCompactions} \subseteq Nat
    /\ SerialCalls \subseteq 1..MaxCalls /\ ManualCompaction \in BOOLEAN

VARIABLES
    transcript,   \* Thread.History: the provider messages of the current Generation
    provenance,   \* what its tool events say: started, outcome, and which precede a terminal event
    engine,       \* where the Engine is
    batch,        \* the calls of the running batch and how far each is
    invoked,      \* calls for which a policy or the Tool has run (ghost)
    committed,    \* calls whose outcome was ever committed (ghost)
    accepted,     \* inputs accepted so far; the newest is the one the Turn works on
    made,         \* tool calls and texts so far
    shrinks       \* compactions and renewals so far

tpvars == <<transcript, provenance, engine, batch, invoked, committed, accepted, made, shrinks, failures, deaths>>

CallIds == 1..MaxCalls
NoBatch == [c \in {} |-> "none"]
Stages == {"requested", "running", "returned", "fatal"}
Costs == {1, KeepRecent + 1}

Input(i, cost) == [kind |-> "input", id |-> i, cost |-> cost]
Blocked == [kind |-> "blocked"]
Assistant(calls) == [kind |-> "assistant", calls |-> calls]
Results(told) == [kind |-> "results", told |-> told]
Compact(refs) == [kind |-> "compact", refs |-> refs]

Now(where) == engine' = where
Appended(m) == transcript' = Append(transcript, m)
KeepsTranscript == UNCHANGED <<transcript, provenance>>
BatchKept == UNCHANGED <<batch, invoked, committed, accepted, made, shrinks>>

(* A commit or an append that happens, or one that fails and sends the     *)
(* Turn to its failure path.                                               *)
Attempt(done, failed) ==
    \/ Succeeds /\ done
    \/ FailsOnce(MaxProtocolFaults) /\ failed
TurnFails == Now("failing") /\ KeepsTranscript

-----------------------------------------------------------------------------
(* RepairProtocolTail *)

CallsOf(m) == IF m.kind = "assistant" THEN m.calls ELSE {}
AnsweredBy(m) == IF m.kind = "results" THEN DOMAIN m.told ELSE {}
Uses == UNION {CallsOf(transcript[i]) : i \in DOMAIN transcript}
AnsweredCalls == UNION {AnsweredBy(transcript[i]) : i \in DOMAIN transcript}
Dangling == Uses \ AnsweredCalls

RecoveredToolResultTrusting(c) ==
    IF c \in provenance.started THEN "unknown" ELSE "notstarted"

RecoveredToolResult(c) ==
    IF c \in provenance.outcome THEN "own"
    ELSE IF c \in provenance.started THEN "unknown" ELSE "notstarted"

(* The result message goes to the end of the transcript; then the unknown  *)
(* outcomes and transcript.repaired are committed, and a failure of one    *)
(* of them comes back as the repair's error.                               *)
RepairTranscript(next, failed) ==
    IF Dangling = {} THEN Succeeds /\ KeepsTranscript /\ next
    ELSE \/ /\ FailsOnce(MaxProtocolFaults) /\ KeepsTranscript /\ failed
         \/ /\ Appended(Results([c \in Dangling |-> RecoveredToolResult(c)]))
            /\ LET unknown == {c \in Dangling : RecoveredToolResult(c) = "unknown"}
               IN  \/ /\ Succeeds /\ next
                      /\ provenance' = [provenance EXCEPT !.started = @ \ unknown]
                   \/ /\ FailsOnce(MaxProtocolFaults) /\ UNCHANGED provenance /\ failed

(* RecoverTranscript runs while the Thread is attached: its error leaves   *)
(* the Thread unattached.                                                  *)
LoadTranscript ==
    /\ engine = "down"
    /\ RepairTranscript(Now("idle"), Now("down"))
    /\ batch' = NoBatch /\ UNCHANGED <<invoked, committed, accepted, made, shrinks>>

-----------------------------------------------------------------------------
(* Compaction *)

Relevant == SelectSeq(transcript, LAMBDA m : m.kind \notin {"blocked", "compact"})
IsInput(m) == m.kind = "input"
InputPositions(work) == {i \in DOMAIN work : IsInput(work[i])}
NewestInput(work) == Max(InputPositions(work) \cup {0})

NewestOversized(work) ==
    LET n == NewestInput(work) IN IF n > 0 /\ work[n].cost > KeepRecent THEN {n} ELSE {}

RequiresExecutionTail(m) == m.kind = "results" \/ CallsOf(m) # {}

ExecutionTail(work) ==
    IF work = <<>> \/ ~RequiresExecutionTail(Last(work)) THEN {}
    ELSE Max({1, NewestInput(work)})..Len(work)

(* Inputs from the newest back, up to the first that no longer fits.       *)
CostFrom(work, i) ==
    FoldFunctionOnSet(+, 0, [j \in DOMAIN work |-> IF IsInput(work[j]) THEN work[j].cost ELSE 0],
                      i..Len(work))
ChooseRetained(work) ==
    {i \in InputPositions(work) : CostFrom(work, i) <= KeepRecent} \cup ExecutionTail(work)
Retained(work) == ChooseRetained(work) \ NewestOversized(work)
Pick(work, kept) ==
    FoldLeftDomain(LAMBDA acc, i : IF i \in kept THEN Append(acc, work[i]) ELSE acc, <<>>, work)

HasSummary == transcript # <<>> /\ transcript[1].kind = "compact"
PreviousReferences == IF HasSummary THEN transcript[1].refs ELSE <<>>

(* The newest reference always stays; older ones stay while they fit.      *)
CarryReferences(work) ==
    LET new == {work[i].id : i \in NewestOversized(work)}
        all == SelectSeq(PreviousReferences, LAMBDA i : i \notin new) \o SetToSeq(new)
        n == Min({Len(all), Max({1, KeepRecent})})
    IN  SubSeq(all, Len(all) - n + 1, Len(all))

(* generationRecoveryEvents: what follows the last terminal event.         *)
RecoveryEvents ==
    [started |-> provenance.started \ provenance.settled,
     outcome |-> provenance.outcome \ provenance.settled, settled |-> {}]

SaveCompaction ==
    /\ shrinks < MaxCompactions /\ shrinks' = shrinks + 1
    /\ transcript' = <<Compact(CarryReferences(Relevant))>> \o Pick(Relevant, Retained(Relevant))
    /\ provenance' = RecoveryEvents
    /\ UNCHANGED <<batch, invoked, committed, accepted, made>>

(* compactLocked...: nothing to do, an error before or at the commit of    *)
(* the new Generation, the commit, or the commit with an error after it.   *)
CompactLocked(next, failed) ==
    \/ /\ Relevant = <<>> /\ ~HasSummary
       /\ Succeeds /\ KeepsTranscript /\ BatchKept /\ next
    \/ /\ Relevant # <<>> \/ HasSummary
       /\ \/ FailsOnce(MaxProtocolFaults) /\ KeepsTranscript /\ BatchKept /\ failed
          \/ SaveCompaction /\ Attempt(next, failed)

(* /new and a renewal the Agent asks for.                                  *)
NewContext(next, failed) ==
    \/ /\ shrinks < MaxCompactions /\ shrinks' = shrinks + 1
       /\ transcript' = <<>> /\ provenance' = RecoveryEvents
       /\ UNCHANGED <<batch, invoked, committed, accepted, made>> /\ Succeeds /\ next
    \/ FailsOnce(MaxProtocolFaults) /\ KeepsTranscript /\ BatchKept /\ failed

BetweenTurns ==
    /\ engine = "idle"
    /\ \/ ManualCompaction /\ CompactLocked(Now("idle"), Now("idle"))
       \/ NewContext(Now("idle"), Now("idle"))

-----------------------------------------------------------------------------
(* A Turn up to its first request *)

StartTurn ==
    /\ engine = "idle" /\ accepted < MaxTurnInputs
    /\ accepted' = accepted + 1
    /\ RepairTranscript(Now("preparing"), Now("failing"))
    /\ UNCHANGED <<batch, invoked, committed, made, shrinks>>

(* A policy that refuses the input still records it, hidden from providers. *)
RefuseInput ==
    /\ engine = "preparing"
    /\ Attempt(Appended(Blocked) /\ UNCHANGED provenance, KeepsTranscript)
    /\ Now("failing") /\ BatchKept

(* maybeCompact; an error of it is survived by MCP and Worker inputs, and  *)
(* otherwise the input is recorded and the Turn fails.                     *)
AutoCompact ==
    /\ engine = "preparing"
    /\ \E survives \in BOOLEAN :
         CompactLocked(Now("starting"), Now(IF survives THEN "starting" ELSE "aborting"))

PrepareTurn ==
    /\ engine = "preparing"
    /\ Attempt(Now("starting"), Now("aborting")) /\ KeepsTranscript /\ BatchKept

(* recordTurnStartLocked: the input, then turn.started.                    *)
RecordTurnStart ==
    /\ engine \in {"starting", "aborting"}
    /\ \E cost \in Costs :
         \/ /\ Appended(Input(accepted, cost)) /\ UNCHANGED provenance
            /\ Attempt(Now(IF engine = "starting" THEN "iterate" ELSE "failing"), Now("failing"))
         \/ FailsOnce(MaxProtocolFaults) /\ TurnFails
    /\ BatchKept

-----------------------------------------------------------------------------
(* Provider iterations *)

(* drainPendingInputLocked *)
DrainPendingInput ==
    /\ engine \in {"iterate", "draining"} /\ accepted < MaxTurnInputs
    /\ accepted' = accepted + 1
    /\ \E cost \in Costs :
         Attempt(Appended(Input(accepted', cost)) /\ UNCHANGED <<provenance, engine>>,
                 KeepsTranscript /\ Now(IF engine = "iterate" THEN "failing" ELSE "terminal"))
    /\ UNCHANGED <<batch, invoked, committed, made, shrinks>>

RequestModel ==
    /\ engine = "iterate"
    /\ Attempt(Now("requesting"), Now("failing")) /\ KeepsTranscript /\ BatchKept

(* An overflow compacts and goes round again.                              *)
Overflow ==
    engine = "requesting" /\ CompactLocked(Now("iterate"), Now("failing"))

ProviderFails ==
    engine = "requesting" /\ Succeeds /\ TurnFails /\ BatchKept

(* recordProviderResponseLocked with calls: the message, then              *)
(* llm.responded, then the cancellation check before the batch.            *)
Respond ==
    /\ engine = "requesting"
    /\ \/ \E n \in 1..2 :
            /\ made + n <= MaxCalls /\ made' = made + n
            /\ LET new == (made + 1)..(made + n)
               IN  /\ Appended(Assistant(new)) /\ UNCHANGED provenance
                   /\ batch' = [c \in new |-> "requested"]
            /\ Attempt(Now("batch"), Now("failing"))
       \/ /\ FailsOnce(MaxProtocolFaults) /\ TurnFails /\ UNCHANGED <<batch, made>>
    /\ UNCHANGED <<invoked, committed, accepted, shrinks>>

(* A response without calls: the finish policy ends the Turn or goes on.   *)
RespondText ==
    /\ engine = "requesting" /\ made < MaxCalls /\ made' = made + 1
    /\ Attempt(Appended(Assistant({})) /\ UNCHANGED provenance
                 /\ \E next \in {"iterate", "terminal"} : Now(next),
               TurnFails)
    /\ UNCHANGED <<batch, invoked, committed, accepted, shrinks>>

Cancelled ==
    engine \in {"iterate", "batch"} /\ Succeeds /\ TurnFails /\ BatchKept

-----------------------------------------------------------------------------
(* A tool batch: one goroutine a call, one for all serial calls *)

Stage(c, stage) == batch' = [batch EXCEPT ![c] = stage]
InTurn(c) ==
    c \in SerialCalls =>
      \A d \in DOMAIN batch \cap SerialCalls : d < c => batch[d] \in {"returned", "fatal"}

(* The phase and the tool.requested events are committed first.            *)
OpenBatch ==
    /\ engine = "batch"
    /\ Attempt(Now("running"), Now("failing")) /\ KeepsTranscript /\ BatchKept

RunToolCall(c) ==
    /\ engine = "running" /\ batch[c] = "requested" /\ InTurn(c)
    /\ Attempt(Stage(c, "running") /\ provenance' = [provenance EXCEPT !.started = @ \cup {c}],
               Stage(c, "fatal") /\ UNCHANGED provenance)
    /\ UNCHANGED <<transcript, engine, invoked, committed, accepted, made, shrinks>>

(* Policies and the Tool: a result, denials and errors included, or a      *)
(* checkpoint error, which is fatal.                                       *)
ExecuteTool(c) ==
    /\ engine = "running" /\ batch[c] = "running"
    /\ invoked' = invoked \cup {c}
    /\ Attempt(Stage(c, "returned"), Stage(c, "fatal"))
    /\ KeepsTranscript /\ UNCHANGED <<engine, committed, accepted, made, shrinks>>

BatchSettled == \A c \in DOMAIN batch : batch[c] \in {"returned", "fatal"}
Returned == {c \in DOMAIN batch : batch[c] = "returned"}

(* recordToolBatchLocked after wg.Wait: every result that is not fatal is  *)
(* committed, whichever others fail.                                       *)
FinishedEvents(calls) ==
    /\ provenance' = [provenance EXCEPT !.outcome = @ \cup calls]
    /\ committed' = committed \cup calls

EmitToolFinished ==
    /\ engine = "running" /\ BatchSettled
    /\ \/ /\ Succeeds /\ FinishedEvents(Returned)
          /\ Now(IF Returned = DOMAIN batch THEN "append" ELSE "failing")
       \/ /\ FailsOnce(MaxProtocolFaults) /\ Now("failing")
          /\ \E c \in Returned : FinishedEvents(Returned \ {c})
    /\ UNCHANGED <<transcript, batch, invoked, accepted, made, shrinks>>

(* The result message, then the projection event.                          *)
AppendResults ==
    /\ engine = "append"
    /\ \/ /\ Appended(Results([c \in DOMAIN batch |-> "own"])) /\ UNCHANGED provenance
          /\ Attempt(Now("transition"), Now("failing"))
       \/ FailsOnce(MaxProtocolFaults) /\ TurnFails
    /\ batch' = NoBatch /\ UNCHANGED <<invoked, committed, accepted, made, shrinks>>

(* applyRequestedContextTransitionLocked *)
ApplyTransition ==
    /\ engine = "transition"
    /\ \/ Succeeds /\ Now("iterate") /\ KeepsTranscript /\ BatchKept
       \/ CompactLocked(Now("iterate"), Now("failing"))
       \/ NewContext(Now("terminal"), Now("failing"))

-----------------------------------------------------------------------------
(* The end of a Turn *)

(* preservePendingInputAfterFailureLocked: only when inputs wait.          *)
PreservePendingInput ==
    /\ engine = "failing"
    /\ RepairTranscript(Now("draining"), Now("terminal"))
    /\ batch' = NoBatch /\ UNCHANGED <<invoked, committed, accepted, made, shrinks>>

FailTurn ==
    /\ engine \in {"failing", "draining"} /\ Succeeds /\ Now("terminal") /\ KeepsTranscript
    /\ batch' = NoBatch /\ UNCHANGED <<invoked, committed, accepted, made, shrinks>>

(* turn.completed, turn.errored or turn.cancelled                          *)
CommitTerminal ==
    /\ engine = "terminal" /\ Now("idle") /\ UNCHANGED transcript
    /\ Attempt(provenance' = [provenance EXCEPT !.settled = provenance.started \cup provenance.outcome],
               UNCHANGED provenance)
    /\ BatchKept

ProcessEnds ==
    /\ engine # "down" /\ Dies(MaxProtocolDeaths) /\ Succeeds /\ Now("down") /\ KeepsTranscript
    /\ batch' = NoBatch /\ UNCHANGED <<invoked, committed, accepted, made, shrinks>>

TPInit ==
    /\ transcript = <<>> /\ provenance = [started |-> {}, outcome |-> {}, settled |-> {}]
    /\ engine = "down" /\ batch = NoBatch /\ invoked = {} /\ committed = {}
    /\ accepted = 0 /\ made = 0 /\ shrinks = 0 /\ FaultFree

EngineStep ==
    \/ LoadTranscript \/ BetweenTurns \/ StartTurn \/ RefuseInput \/ AutoCompact \/ PrepareTurn
    \/ RecordTurnStart \/ DrainPendingInput \/ RequestModel \/ Overflow \/ ProviderFails
    \/ Respond \/ RespondText \/ Cancelled \/ OpenBatch
    \/ \E c \in DOMAIN batch : RunToolCall(c) \/ ExecuteTool(c)
    \/ EmitToolFinished \/ AppendResults \/ ApplyTransition
    \/ PreservePendingInput \/ FailTurn \/ CommitTerminal

TPNext == (EngineStep /\ UNCHANGED deaths) \/ ProcessEnds

TPSpec == TPInit /\ [][TPNext]_tpvars

-----------------------------------------------------------------------------
Told == {"own", "unknown", "notstarted"}
ResultsAt(i) == transcript[i].kind = "results"

(* Every value is of the kind its Go counterpart has.                      *)
TPTypeOK ==
    /\ \A i \in DOMAIN transcript :
         /\ transcript[i].kind \in {"input", "blocked", "assistant", "results", "compact"}
         /\ ResultsAt(i) => \A c \in DOMAIN transcript[i].told : transcript[i].told[c] \in Told
    /\ provenance \in [started : SUBSET CallIds, outcome : SUBSET CallIds, settled : SUBSET CallIds]
    /\ DOMAIN batch \subseteq CallIds /\ \A c \in DOMAIN batch : batch[c] \in Stages
    /\ invoked \subseteq CallIds /\ accepted \in 0..MaxTurnInputs /\ made \in 0..MaxCalls

(* Whatever fails and whenever the process ends or the context is          *)
(* compacted, the messages a provider is sent pair up: a message with tool *)
(* calls is followed at once by one result message that answers exactly    *)
(* those calls, no result stands alone, and only the last message may      *)
(* still wait for its results - never when a request is made.              *)
ProviderProtocol ==
    /\ \A i \in DOMAIN transcript : CallsOf(transcript[i]) # {} =>
         \/ i = Len(transcript) /\ engine # "requesting"
         \/ i < Len(transcript) /\ AnsweredBy(transcript[i + 1]) = CallsOf(transcript[i])
    /\ \A i \in DOMAIN transcript : ResultsAt(i) =>
         i > 1 /\ CallsOf(transcript[i - 1]) = AnsweredBy(transcript[i])

(* What a result message tells the model about a call is true: a call      *)
(* reported as never started ran neither a policy nor its Tool, and a call *)
(* whose outcome was committed is reported with that outcome, although the *)
(* Turn failed or the process ended before its results were appended.      *)
TruthfulResults ==
    \A i \in DOMAIN transcript : ResultsAt(i) => \A c \in DOMAIN transcript[i].told :
      LET told == transcript[i].told[c]
      IN  /\ told = "notstarted" => c \notin invoked
          /\ told = "own" => c \in invoked
          /\ c \in committed => told = "own"

(* The newest input stays in front of the model while its Turn works on    *)
(* it: as its own message, or, when it alone exceeds what compaction may   *)
(* retain, as a reference in the summary, however often the context is     *)
(* compacted.                                                              *)
NewestInputKept ==
    engine \in {"iterate", "requesting", "batch", "running", "append", "transition"} =>
      \/ \E i \in InputPositions(transcript) : transcript[i].id = accepted
      \/ accepted \in Range(PreviousReferences)

ProtocolSafe == ProviderProtocol /\ TruthfulResults /\ NewestInputKept

=============================================================================
