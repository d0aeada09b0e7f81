----------------------------- MODULE DurableInbox -----------------------------
(***************************************************************************)
(* What a Thread promises about its Inputs, without queues, Turns, locks   *)
(* or processes (DOMAIN.md, invariant 7; ARCHITECTURE.md, Input            *)
(* admission).  An Input is out until it is durably held, held until it is *)
(* withdrawn or settled by a terminal record, and executed only while it   *)
(* is held.  A settled Input is done for good.                             *)
(***************************************************************************)
EXTENDS Sequences, Naturals

CONSTANT Inputs

VARIABLES
    status,  \* of every Input: "out", "held" or "done"
    log      \* the Inputs whose messages reached the transcript, in order

Moves(S, from, to) ==
    /\ \A i \in S : status[i] = from
    /\ status' = [i \in Inputs |-> IF i \in S THEN to ELSE status[i]]
    /\ UNCHANGED log

Accept(i) == Moves({i}, "out", "held")

(* Expired, discarded, or refused before its Turn was admitted. *)
Withdraw(S) == Moves(S, "held", "out")

(* The terminal record of a Turn settles everything the Turn consumed. *)
Settle(S) == Moves(S, "held", "done")

(* Messages are only added at the end, and only those of held Inputs. *)
Execute ==
    /\ Len(log') > Len(log)
    /\ \A k \in 1 .. Len(log) : log'[k] = log[k]
    /\ \A k \in Len(log) + 1 .. Len(log') : status[log'[k]] = "held"
    /\ UNCHANGED status

InboxInit ==
    /\ status = [i \in Inputs |-> "out"]
    /\ log = <<>>

InboxNext ==
    \/ \E i \in Inputs : Accept(i)
    \/ \E S \in SUBSET Inputs : Withdraw(S) \/ Settle(S)
    \/ Execute

InboxSpec == InboxInit /\ [][InboxNext]_<<status, log>>

=============================================================================
