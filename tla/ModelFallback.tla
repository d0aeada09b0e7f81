---------------------------- MODULE ModelFallback ---------------------------
(***************************************************************************)
(* Model requests and the health all Threads of a process share: ModelHealth *)
(* (framework/modelhealth), the fallback chain of a Turn's request         *)
(* (runtime/loop.go requestProviderTurnLocked, runtime/model_fallback.go)  *)
(* and the chain of a compaction summary                                   *)
(* (runtime/compaction_summary_generation.go), which a fallback candidate  *)
(* may need before its own request, while it holds that candidate's ticket. *)
(***************************************************************************)
EXTENDS Naturals, Sequences, FiniteSets, FiniteSetsExt, SequencesExt

CONSTANTS
    Models,         \* model references
    Chain,          \* ModelCandidates of the Engines
    SummaryChain,   \* the summary model, then the rest of the chain
    Requesters,     \* Threads that make requests
    NoModel,        \* the empty reference
    MaxCompletions, \* bound: successes and failures that change a model's health
    MaxProbes       \* bound: probes issued

ASSUME ModelAssumption ==
    /\ Chain \in Seq(Models) /\ SummaryChain \in Seq(Models) /\ NoModel \notin Models
    /\ IsInjective(Chain) /\ IsInjective(SummaryChain) /\ {MaxCompletions, MaxProbes} \subseteq Nat

VARIABLES
    health,     \* modelHealthState of each model
    tokens,     \* h.nextToken
    request,    \* what each Thread's request holds
    summary,    \* what its summary generation holds
    misjudged   \* models whose circuit an outdated failure opened (ghost)

mhvars == <<health, tokens, request, summary, misjudged>>

Healthy == [generation |-> 0, failures |-> 0, cooling |-> FALSE, token |-> 0, successes |-> 0]
NoTicket == [ref |-> NoModel, generation |-> 0, token |-> 0, seen |-> 0]
NoAttempt == [at |-> "idle", ticket |-> NoTicket, model |-> NoModel, tried |-> {}]

-----------------------------------------------------------------------------
(* ModelHealth *)

ProbeInFlight(m) == health[m].token # 0
Usable(m) == health[m].failures = 0 \/ (~health[m].cooling /\ ~ProbeInFlight(m))
Untried(chain, tried) == {i \in DOMAIN chain : chain[i] \notin tried}
Selectable(chain, tried) == {i \in Untried(chain, tried) : Usable(chain[i])}
Found(chain, tried) == Selectable(chain, tried) # {}
Index(chain, tried) == Min(Selectable(chain, tried))
Skipped(chain, tried) ==
    {chain[i] : i \in {j \in Untried(chain, tried) : Found(chain, tried) => j < Index(chain, tried)}}

(* A model that failed and has cooled down is handed out as a probe, to    *)
(* one request at a time.                                                  *)
TicketFor(m) ==
    [ref |-> m, generation |-> health[m].generation, seen |-> health[m].successes,
     token |-> IF health[m].failures > 0 THEN tokens + 1 ELSE 0]

Issue(m) ==
    IF health[m].failures > 0
    THEN /\ tokens < MaxProbes /\ tokens' = tokens + 1
         /\ health' = [health EXCEPT ![m].token = tokens + 1]
    ELSE UNCHANGED <<health, tokens>>

Stale(ticket) ==
    \/ health[ticket.ref].generation # ticket.generation
    \/ ticket.token # 0 /\ health[ticket.ref].token # ticket.token

CompletedSameGeneration(ticket, outcome) ==
    [health[ticket.ref] EXCEPT
       !.failures = IF outcome = "failure" THEN @ + 1 ELSE 0,
       !.cooling = outcome = "failure", !.token = 0,
       !.successes = IF outcome = "success" THEN @ + 1 ELSE @]

Completed(ticket, outcome) ==
    [health[ticket.ref] EXCEPT
       !.generation = @ + 1,
       !.failures = IF outcome = "failure" THEN @ + 1 ELSE 0,
       !.cooling = outcome = "failure", !.token = 0,
       !.successes = IF outcome = "success" THEN @ + 1 ELSE @]

Complete(ticket, outcome) ==
    IF ticket.ref = NoModel \/ Stale(ticket) THEN UNCHANGED <<health, misjudged>>
    ELSE /\ \/ /\ outcome = "neutral"
               /\ health' = IF ticket.token # 0 THEN [health EXCEPT ![ticket.ref].token = 0] ELSE health
            \/ /\ outcome # "neutral" /\ health[ticket.ref].generation < MaxCompletions
               /\ health' = [health EXCEPT ![ticket.ref] = Completed(ticket, outcome)]
         /\ misjudged' = IF outcome = "failure" /\ ticket.seen < health[ticket.ref].successes
                         THEN misjudged \cup {ticket.ref} ELSE misjudged

CoolsDown(m) ==
    /\ health[m].cooling /\ health' = [health EXCEPT ![m].cooling = FALSE]
    /\ UNCHANGED <<tokens, request, summary, misjudged>>

-----------------------------------------------------------------------------
(* The request of a Turn *)

SetRequest(t, r) == request' = [request EXCEPT ![t] = r]
SetSummary(t, s) == summary' = [summary EXCEPT ![t] = s]
EndsRequest(t) == SetRequest(t, NoAttempt) /\ UNCHANGED summary

(* A candidate for the request, or the chain is exhausted.                 *)
AcquireCandidate(t) ==
    /\ request[t].at \in {"idle", "next"} /\ summary[t].at = "idle"
    /\ LET tried == request[t].tried IN
       IF Found(Chain, tried)
       THEN LET m == Chain[Index(Chain, tried)] IN
            /\ Issue(m)
            /\ SetRequest(t, [at |-> "prepare", ticket |-> TicketFor(m), model |-> m,
                              tried |-> tried \cup Skipped(Chain, tried) \cup {m}])
            /\ UNCHANGED <<summary, misjudged>>
       ELSE EndsRequest(t) /\ UNCHANGED <<health, tokens, misjudged>>

(* prepareCandidateRequestLocked: a candidate that is not the first may    *)
(* compact for its own context window first.                               *)
Preflight(t) ==
    /\ request[t].at = "prepare" /\ request[t].model # Chain[1]
    /\ SetRequest(t, [request[t] EXCEPT !.at = "preflight"])
    /\ SetSummary(t, [NoAttempt EXCEPT !.at = "next"])
    /\ UNCHANGED <<health, tokens, misjudged>>

(* An error of the preparation, the checkpoint or a commit, a cancellation *)
(* or an error that is not eligible for fallback: the ticket comes back.   *)
GiveUpRequest(t) ==
    /\ request[t].at \in {"prepare", "ready", "failed", "sent"}
    /\ Complete(request[t].ticket, "neutral") /\ EndsRequest(t) /\ UNCHANGED tokens

SendRequest(t) ==
    /\ request[t].at \in {"prepare", "ready"} /\ SetRequest(t, [request[t] EXCEPT !.at = "sent"])
    /\ UNCHANGED <<health, tokens, summary, misjudged>>

(* Also when the response is discarded because the Turn was cancelled.     *)
Answered(t) ==
    /\ request[t].at = "sent" /\ Complete(request[t].ticket, "success") /\ EndsRequest(t)
    /\ UNCHANGED tokens

(* A failure that is eligible for fallback; with a single candidate the    *)
(* health is left alone and the error returned, which is GiveUp.           *)
FallsBack(t) ==
    /\ request[t].at = "sent" /\ Len(Chain) > 1
    /\ Complete(request[t].ticket, "failure")
    /\ SetRequest(t, [request[t] EXCEPT !.at = "next", !.ticket = NoTicket, !.model = NoModel])
    /\ UNCHANGED <<tokens, summary>>

-----------------------------------------------------------------------------
(* generateCompactionSummaryLocked *)

Reserved(t) == request[t].model
ReservedIndex(t) ==
    IF Reserved(t) \in Range(SummaryChain)
    THEN CHOOSE i \in DOMAIN SummaryChain : SummaryChain[i] = Reserved(t) ELSE 0

(* The candidate whose ticket the request holds is used without one, and a *)
(* ticket acquired for a later candidate is given back.                    *)
UsesReservation(t) ==
    LET tried == summary[t].tried IN
    /\ ReservedIndex(t) > 0 /\ Reserved(t) \notin tried
    /\ Found(SummaryChain, tried) => Index(SummaryChain, tried) >= ReservedIndex(t)

Attempting(t, at, ticket, m, skips) ==
    SetSummary(t, [at |-> at, ticket |-> ticket, model |-> m,
                   tried |-> summary[t].tried \cup skips \cup {m}])

AcquireSummaryCandidate(t) ==
    LET tried == summary[t].tried
        m == SummaryChain[Index(SummaryChain, tried)]
        skips == Skipped(SummaryChain, tried)
        earlier == {s \in skips : \E i \in 1..ReservedIndex(t) - 1 : SummaryChain[i] = s}
    IN
    /\ summary[t].at = "next" /\ UNCHANGED <<request, misjudged>>
    /\ IF Found(SummaryChain, tried)
       THEN /\ Issue(m)
            /\ IF UsesReservation(t) THEN Attempting(t, "surplus", TicketFor(m), Reserved(t), earlier)
               ELSE Attempting(t, "sent", TicketFor(m), m, skips)
       ELSE /\ UsesReservation(t) /\ Attempting(t, "sent", NoTicket, Reserved(t), earlier)
            /\ UNCHANGED <<health, tokens>>

ReturnSurplus(t) ==
    /\ summary[t].at = "surplus" /\ Complete(summary[t].ticket, "neutral")
    /\ SetSummary(t, [summary[t] EXCEPT !.at = "sent", !.ticket = NoTicket])
    /\ UNCHANGED <<tokens, request>>

SummaryEnds(t, next) ==
    /\ SetSummary(t, NoAttempt)
    /\ IF request[t].at = "preflight"
       THEN SetRequest(t, [request[t] EXCEPT !.at = next]) ELSE UNCHANGED request

SummaryExhausted(t) ==
    /\ summary[t].at = "next" /\ ~Found(SummaryChain, summary[t].tried) /\ ~UsesReservation(t)
    /\ SummaryEnds(t, "failed") /\ UNCHANGED <<health, tokens, misjudged>>

(* Auto, overflow and manual compaction: no reservation.                   *)
Summarize(t) ==
    /\ request[t].at = "idle" /\ summary[t].at = "idle"
    /\ SetSummary(t, [NoAttempt EXCEPT !.at = "next"])
    /\ UNCHANGED <<health, tokens, request, misjudged>>

(* A valid summary, of the first or of the retried request.                *)
SummaryAccepted(t) ==
    /\ summary[t].at = "sent" /\ Complete(summary[t].ticket, "success")
    /\ \E next \in {"ready", "failed"} : SummaryEnds(t, next)
    /\ UNCHANGED tokens

(* A summary that fails does not count against the model: the next one is  *)
(* tried.                                                                  *)
SummaryRefused(t) ==
    /\ summary[t].at = "sent" /\ Complete(summary[t].ticket, "neutral")
    /\ SetSummary(t, [summary[t] EXCEPT !.at = "next", !.ticket = NoTicket, !.model = NoModel])
    /\ UNCHANGED <<tokens, request>>

(* A commit that fails, an invalid state or a cancellation ends it.        *)
SummaryAborted(t) ==
    /\ summary[t].at = "sent" /\ Complete(summary[t].ticket, "neutral")
    /\ SummaryEnds(t, "failed") /\ UNCHANGED tokens

MHInit ==
    /\ health = [m \in Models |-> Healthy] /\ tokens = 0 /\ misjudged = {}
    /\ request = [t \in Requesters |-> NoAttempt] /\ summary = [t \in Requesters |-> NoAttempt]

MHNext ==
    \/ \E m \in Models : CoolsDown(m)
    \/ \E t \in Requesters :
         \/ AcquireCandidate(t) \/ Preflight(t) \/ GiveUpRequest(t) \/ SendRequest(t) \/ Answered(t)
         \/ FallsBack(t) \/ Summarize(t) \/ AcquireSummaryCandidate(t) \/ ReturnSurplus(t)
         \/ SummaryExhausted(t) \/ SummaryAccepted(t) \/ SummaryRefused(t) \/ SummaryAborted(t)

MHSpec == MHInit /\ [][MHNext]_mhvars

-----------------------------------------------------------------------------
Tickets(t) == {request[t].ticket, summary[t].ticket}
Attempts ==
    [at : {"idle", "next", "prepare", "preflight", "ready", "failed", "sent", "surplus"},
     ticket : [ref : Models \cup {NoModel}, generation : 0..MaxCompletions, token : 0..MaxProbes,
               seen : 0..MaxCompletions],
     model : Models \cup {NoModel}, tried : SUBSET Models]

(* Every value is of the kind its Go counterpart has.                      *)
MHTypeOK ==
    /\ \A m \in Models : health[m] \in
         [generation : 0..MaxCompletions, failures : 0..MaxCompletions, cooling : BOOLEAN,
          token : 0..MaxProbes, successes : 0..MaxCompletions]
    /\ tokens \in 0..MaxProbes /\ misjudged \subseteq Models
    /\ \A t \in Requesters : request[t] \in Attempts /\ summary[t] \in Attempts

(* A probe that is in flight belongs to exactly one attempt that will      *)
(* still complete it, whatever failed on the way and however a summary     *)
(* borrowed or gave back candidates: a model that failed once is never     *)
(* locked out of the chain for ever, and never probed by two requests.     *)
ProbeOwned ==
    \A m \in Models : ProbeInFlight(m) =>
      Cardinality({t \in Requesters : \E k \in Tickets(t) :
                     k.ref = m /\ k.token = health[m].token /\ ~Stale(k)}) = 1

(* A slow failure never opens the circuit of a model that another Thread   *)
(* has used successfully since the failing attempt began.                  *)
NewerSuccessWins == misjudged = {}

ModelHealthSafe == ProbeOwned /\ NewerSuccessWins

=============================================================================
