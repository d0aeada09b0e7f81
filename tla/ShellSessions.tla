---------------------------- MODULE ShellSessions ---------------------------
(***************************************************************************)
(* The shell session manager (features/shell/session.go): exec_command     *)
(* starts a process and waits for it, write_stdin continues one, List and  *)
(* Start prune what has finished, Close ends everything.  The output of a  *)
(* process goes to the unread buffer that tool results take from and, as   *)
(* deltas, to the events of the tool call that owns the session.  A byte   *)
(* is its position; two bytes make one UTF-8 rune.                         *)
(***************************************************************************)
EXTENDS Naturals, Sequences, FiniteSets, SequencesExt

CONSTANTS
    MaxSessions,    \* ShellSessionManager.maxSessions
    MaxShellStarts, \* bound: exec_command calls; a session has its call's number
    WriteCalls,     \* write_stdin calls
    MaxBytes,       \* bound: bytes one process writes
    MaxDeltas       \* maxShellDeltaCount

ASSUME ShellBounds ==
    /\ MaxSessions \in Nat \ {0} /\ MaxShellStarts \in Nat
    /\ MaxBytes \in Nat /\ MaxDeltas \in Nat
    /\ WriteCalls \cap Nat = {}

VARIABLES
    shClosed,  \* closed
    sessions,  \* the map: identifiers that are registered
    recency,   \* registered identifiers, least recently accessed first
    shell,     \* the shellSession of each identifier
    shCall,    \* progress of each tool call
    toKill,    \* sessions Close has taken and not yet killed
    results    \* what the calls on each session returned, in order

shvars == <<shClosed, sessions, recency, shell, shCall, toKill, results>>

SessionIds == 1 .. MaxShellStarts
ShCalls == SessionIds \cup WriteCalls
NoCall == 0

NewSession == [proc |-> "none", killed |-> FALSE, done |-> FALSE, made |-> 0, app |-> 0, unread |-> 0,
               events |-> NoCall, carry |-> 0, deltas |-> 0, sending |-> NoCall, invocation |-> NoCall]

NoShCall == [at |-> "idle", on |-> 0]
CallAt(c, at) == shCall[c].at = at
CallTo(c, at) == shCall' = [shCall EXCEPT ![c].at = at]

OnlyShell == UNCHANGED <<shClosed, sessions, recency, shCall, toKill, results>>

(* appendOutput holds deliveryMu from the append to the last emit *)
Delivering(s) == shell[s].sending # NoCall

Accessed(s) == IF s \in sessions THEN Append(SelectSeq(recency, LAMBDA i : i # s), s) ELSE recency

Kill(s) == shell' = [shell EXCEPT ![s].killed = TRUE]

-----------------------------------------------------------------------------
(* The process and its output *)

Produce(s) ==
    /\ shell[s].proc = "running" /\ shell[s].made < MaxBytes
    /\ shell' = [shell EXCEPT ![s].made = @ + 1]
    /\ OnlyShell

ProcessExits(s) ==
    /\ shell[s].proc = "running"
    /\ shell' = [shell EXCEPT ![s].proc = "exited"]
    /\ OnlyShell

(* appendOutput: the bytes join the unread buffer; those that complete a   *)
(* rune become a delta of the owning call while deltas remain.  Bytes no   *)
(* call owns are never sent later, but half a rune waits for its end.      *)
AppendOutput(s) ==
    LET sh == shell[s]
    IN  /\ sh.app < sh.made /\ ~Delivering(s)
        /\ \E upTo \in sh.app + 1 .. sh.made :
             LET sends == /\ sh.events # NoCall /\ sh.deltas < MaxDeltas
                          /\ upTo - (upTo % 2) > sh.app - sh.carry
             IN  shell' = [shell EXCEPT ![s] =
                    [sh EXCEPT !.app = upTo,
                               !.unread = @ + (upTo - sh.app),
                               !.carry = IF sh.events = NoCall \/ sh.deltas < MaxDeltas THEN upTo % 2 ELSE 0,
                               !.deltas = IF sends THEN @ + 1 ELSE @,
                               !.sending = IF sends THEN sh.events ELSE NoCall]]
        /\ OnlyShell

(* emit(delta), then deliveryMu is released *)
EmitDelta(s) ==
    /\ Delivering(s)
    /\ shell' = [shell EXCEPT ![s].sending = NoCall]
    /\ OnlyShell

DrainedAnyway(s) == TRUE

(* wait: the process has ended and its output has been copied *)
Drained(s) == shell[s].app = shell[s].made /\ ~Delivering(s)

WaitProcess(s) ==
    /\ shell[s].proc = "exited" /\ ~shell[s].done /\ Drained(s)
    /\ shell' = [shell EXCEPT ![s].done = TRUE]
    /\ OnlyShell

-----------------------------------------------------------------------------
(* pruneLocked: finished sessions older than the TTL, then the finished    *)
(* ones that were used longest ago while the map is full.                  *)

DoneIn(ids) == {i \in ids : shell[i].done}
UsedBefore(i, j) ==
    \E m, n \in DOMAIN recency : m < n /\ recency[m] = i /\ recency[n] = j

Evict(ids) ==
    LET over == IF Cardinality(ids) < MaxSessions THEN 0 ELSE Cardinality(ids) - MaxSessions + 1
    IN  ids \ {i \in DoneIn(ids) : Cardinality({j \in DoneIn(ids) : UsedBefore(j, i)}) < over}

(* The TTL has passed for some number of the least recently used *)
Pruned ==
    {Evict(sessions \ {i \in Range(SubSeq(recency, 1, n)) : shell[i].done}) : n \in 0 .. Len(recency)}

KeepSessions(ids) == sessions' = ids /\ recency' = SelectSeq(recency, LAMBDA i : i \in ids)

List ==
    /\ ~shClosed
    /\ \E ids \in Pruned : KeepSessions(ids)
    /\ UNCHANGED <<shClosed, shell, shCall, toKill, results>>

-----------------------------------------------------------------------------
(* exec_command: Start *)

(* The manager is open; the process is started outside the lock.  A start  *)
(* that fails leaves nothing.                                              *)
SpawnSession(s) ==
    /\ CallAt(s, "idle") /\ \A i \in 1 .. s - 1 : ~CallAt(i, "idle")
    /\ IF shClosed
       THEN CallTo(s, "failed") /\ UNCHANGED shell
       ELSE \/ CallTo(s, "failed") /\ UNCHANGED shell
            \/ /\ shCall' = [shCall EXCEPT ![s] = [at |-> "spawned", on |-> s]]
               /\ shell' = [shell EXCEPT ![s].proc = "running", ![s].events = s]
    /\ UNCHANGED <<shClosed, sessions, recency, toKill, results>>

StartRefused(s, ids) == shClosed \/ Cardinality(ids) >= MaxSessions

RegisterSession(s) ==
    /\ CallAt(s, "spawned")
    /\ \E ids \in IF shClosed THEN {sessions} ELSE Pruned :
         IF StartRefused(s, ids)
         THEN /\ CallTo(s, "killing")
              /\ KeepSessions(ids)
         ELSE /\ CallTo(s, "waiting")
              /\ sessions' = ids \cup {s}
              /\ recency' = Append(SelectSeq(recency, LAMBDA i : i \in ids), s)
    /\ UNCHANGED <<shClosed, shell, toKill, results>>

KillRefused(s) ==
    /\ CallAt(s, "killing")
    /\ Kill(s) /\ CallTo(s, "failed")
    /\ UNCHANGED <<shClosed, sessions, recency, toKill, results>>

(* waitFor: the timer, the end of the session, or the call's context       *)
StopWaiting(c) ==
    LET s == shCall[c].on
    IN  /\ CallAt(c, "waiting")
        /\ CallTo(c, "snapshot")
        /\ shell' = shell \/ Kill(s)
        /\ UNCHANGED <<shClosed, sessions, recency, toKill, results>>

(* snapshot: what the result covers, and what stays unread.  A result of a *)
(* running session leaves half a rune behind.                              *)
Result(c, s) ==
    [call |-> c, from |-> shell[s].app - shell[s].unread, final |-> shell[s].done,
     upTo |-> shell[s].app - (IF shell[s].done THEN 0 ELSE shell[s].app % 2)]

SnapshotWaits(s) == Delivering(s)

Snapshot(c, clear) ==
    LET s == shCall[c].on
    IN  /\ ~SnapshotWaits(s)
        /\ shell' = [shell EXCEPT ![s].events = NoCall,
                                  ![s].unread = IF ~clear THEN @ ELSE IF shell[s].done THEN 0 ELSE shell[s].app % 2,
                                  ![s].carry = IF shell[s].done THEN 0 ELSE @,
                                  ![s].invocation = IF @ = c THEN NoCall ELSE @]
        /\ results' = IF clear THEN [results EXCEPT ![s] = Append(@, Result(c, s))] ELSE results
        /\ recency' = Accessed(s)
        /\ CallTo(c, "returned")
        /\ UNCHANGED <<shClosed, sessions, toKill>>

ReturnResult(c) == CallAt(c, "snapshot") /\ Snapshot(c, TRUE)

-----------------------------------------------------------------------------
(* write_stdin: Continue *)

FindSession(c) ==
    /\ CallAt(c, "idle")
    /\ \E s \in SessionIds :
         IF ~shClosed /\ s \in sessions
         THEN shCall' = [shCall EXCEPT ![c] = [at |-> "found", on |-> s]]
         ELSE CallTo(c, "failed")
    /\ UNCHANGED <<shClosed, sessions, recency, shell, toKill, results>>

(* invocationMu, then setInvocationEvents *)
TakeInvocation(c) ==
    LET s == shCall[c].on
    IN  /\ CallAt(c, "found")
        /\ shell[s].invocation = NoCall /\ ~Delivering(s)
        /\ shell' = [shell EXCEPT ![s].invocation = c, ![s].events = c]
        /\ CallTo(c, "writing")
        /\ UNCHANGED <<shClosed, sessions, recency, toKill, results>>

(* writeStdin: an empty input polls; a finished session, closed stdin and  *)
(* a failed write return what is unread without taking it.                 *)
WriteStdin(c) ==
    /\ CallAt(c, "writing")
    /\ CallTo(c, "waiting")
    /\ UNCHANGED <<shClosed, sessions, recency, shell, toKill, results>>

WriteRefused(c) == CallAt(c, "writing") /\ Snapshot(c, FALSE)

-----------------------------------------------------------------------------
(* Close *)

ShellClose ==
    /\ ~shClosed
    /\ shClosed' = TRUE /\ toKill' = sessions /\ sessions' = {} /\ recency' = <<>>
    /\ UNCHANGED <<shell, shCall, results>>

CloseKills(s) ==
    /\ s \in toKill
    /\ Kill(s) /\ toKill' = toKill \ {s}
    /\ UNCHANGED <<shClosed, sessions, recency, shCall, results>>

-----------------------------------------------------------------------------
ShInit ==
    /\ shClosed = FALSE /\ sessions = {} /\ recency = <<>> /\ toKill = {}
    /\ shell = [s \in SessionIds |-> NewSession]
    /\ shCall = [c \in ShCalls |-> NoShCall]
    /\ results = [s \in SessionIds |-> <<>>]

SessionStep(s) ==
    \/ Produce(s)
    \/ ProcessExits(s)
    \/ AppendOutput(s)
    \/ EmitDelta(s)
    \/ WaitProcess(s)
    \/ SpawnSession(s)
    \/ RegisterSession(s)
    \/ KillRefused(s)
    \/ CloseKills(s)

ShNext ==
    \/ \E s \in SessionIds : SessionStep(s)
    \/ \E c \in ShCalls : StopWaiting(c) \/ ReturnResult(c)
    \/ \E c \in WriteCalls : FindSession(c) \/ TakeInvocation(c) \/ WriteStdin(c) \/ WriteRefused(c)
    \/ List
    \/ ShellClose

ShSpec == ShInit /\ [][ShNext]_shvars

-----------------------------------------------------------------------------
ShTypeOK ==
    /\ shClosed \in BOOLEAN
    /\ sessions \subseteq SessionIds /\ toKill \subseteq SessionIds
    /\ Range(recency) = sessions /\ Len(recency) = Cardinality(sessions)
    /\ \A s \in SessionIds :
         /\ shell[s].app \in 0 .. shell[s].made /\ shell[s].unread \in 0 .. shell[s].app
         /\ shell[s].carry \in 0 .. 1
         /\ {shell[s].events, shell[s].sending, shell[s].invocation} \subseteq ShCalls \cup {NoCall}
    /\ \A c \in ShCalls : shCall[c].at \in {"idle", "spawned", "killing", "waiting", "snapshot", "returned",
                                            "failed", "found", "writing"}

(* No process is left running: one that nothing has killed can still be    *)
(* reached, through the map of an open manager, the Close that is killing the sessions it     *)
(* took, or the exec_command call that has not registered it yet (Start    *)
(* tests closed again after it has started the process; pruneLocked drops  *)
(* only sessions that are done).                                           *)
ProcessesOwned ==
    \A s \in SessionIds :
      shell[s].proc = "running" /\ ~shell[s].killed =>
        \/ ~shClosed /\ s \in sessions
        \/ s \in toKill
        \/ shCall[s].at \in {"spawned", "killing"}

(* The results of a session hand over its output once, in order and        *)
(* without a gap, whichever calls took them; a result of a running session *)
(* does not split a rune, and the result that reports the exit is          *)
(* complete.                                                               *)
ResultsExact ==
    \A s \in SessionIds :
      LET rs == results[s]
      IN  /\ \A i \in DOMAIN rs : rs[i].from = IF i = 1 THEN 0 ELSE rs[i - 1].upTo
          /\ \A i \in DOMAIN rs : IF rs[i].final THEN rs[i].upTo = shell[s].made ELSE rs[i].upTo % 2 = 0

(* A delta never reaches the events of a tool call that has returned its   *)
(* result (deliveryMu "keeps unread output snapshots from overtaking the   *)
(* matching output-delta delivery").                                       *)
DeltasBeforeResult ==
    \A s \in SessionIds : Delivering(s) => ~CallAt(shell[s].sending, "returned")

(* Output of the shell: results and deltas *)
ShellOutputOrdered == ResultsExact /\ DeltasBeforeResult

(* The processes and the output of the shell sessions (session.go)         *)
ShellSafe == ProcessesOwned /\ ShellOutputOrdered

=============================================================================
