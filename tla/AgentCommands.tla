---------------------------- MODULE AgentCommands ----------------------------
(***************************************************************************)
(* Commands of the control plane to a host agent, and the agent's store of *)
(* idempotency keys.  Every dispatch makes a key of its own, so a command  *)
(* stands for its key.  A request reaches the agent through the servicer,  *)
(* which deduplicates by key, or through the agent's HTTP server, which    *)
(* ignores it.                                                             *)
(***************************************************************************)
EXTENDS Naturals, Sequences, SequencesExt, Functions

CONSTANTS
    Commands,    \* dispatches: keys
    MaxKeys,     \* _MAX_KEYS of the store
    MaxCopies    \* bound: copies of one request that the servicer gets

ASSUME CommandsAssumption == MaxKeys \in Nat \ {0} /\ MaxCopies \in Nat \ {0}

VARIABLES
    cmd,        \* the dispatches: kind, route, audit row, and whether it is committed
    copies,     \* requests on their way to the agent
    sent,       \* requests ever sent
    handlers,   \* servicer calls between the check of the key and its mark
    answer,     \* what the agent has answered to the dispatcher
    seen,       \* the store: keys in the order they were marked
    runs,       \* ghost: workload operations carried out for a command
    excused     \* ghost: keys whose mark the store has lost, or that two calls checked at once

commandVars == <<cmd, copies, sent, handlers, answer, seen, runs, excused>>

CommandType   == {"launch", "stop", "terminate"}
CommandStatus == {"sent", "acked", "failed", "timed_out"}
Command == [kind: CommandType, way: {"servicer", "http"},
            row: CommandStatus \cup {"none", "lost"}, kept: BOOLEAN]
NoCommand == [kind |-> "launch", way |-> "servicer", row |-> "none", kept |-> FALSE]

CommandsInit ==
    /\ cmd = [c \in Commands |-> NoCommand]
    /\ copies = [c \in Commands |-> 0] /\ sent = copies /\ handlers = copies
    /\ answer = [c \in Commands |-> "none"]
    /\ seen = <<>> /\ runs = copies /\ excused = {}

-----------------------------------------------------------------------------
(* The control plane.  The audit row lives in the caller's transaction.    *)

Dispatch(c, kind, way) ==
    /\ cmd[c].row = "none"
    /\ cmd' = [cmd EXCEPT ![c] = [kind |-> kind, way |-> way, row |-> "sent", kept |-> FALSE]]
    /\ copies' = [copies EXCEPT ![c] = 1] /\ sent' = [sent EXCEPT ![c] = 1]
    /\ UNCHANGED <<handlers, answer, seen, runs, excused>>

\* An answer without "success" counts as one; an HTTP error does not.
AnswerArrives(c) ==
    /\ cmd[c].row = "sent" /\ answer[c] # "none"
    /\ cmd' = [cmd EXCEPT ![c].row = IF answer[c] = "ok" THEN "acked" ELSE "failed"]
    /\ UNCHANGED <<copies, sent, handlers, answer, seen, runs, excused>>

\* The HTTP client gives up after 30 s; the agent may carry the request out all the same.
DispatchTimesOut(c) ==
    /\ cmd[c].row = "sent" /\ cmd[c].way = "http"
    /\ cmd' = [cmd EXCEPT ![c].row = "timed_out"]
    /\ UNCHANGED <<copies, sent, handlers, answer, seen, runs, excused>>

CallerEnds(c, commits) ==
    /\ cmd[c].row \notin {"none", "lost"} /\ ~cmd[c].kept
    /\ commits => cmd[c].row # "sent"
    /\ cmd' = [cmd EXCEPT ![c] = IF commits THEN [@ EXCEPT !.kept = TRUE]
                                            ELSE [@ EXCEPT !.row = "lost"]]
    /\ UNCHANGED <<copies, sent, handlers, answer, seen, runs, excused>>

-----------------------------------------------------------------------------
(* The agent.                                                              *)

\* A caller of the servicer that saw no answer sends its request again.
Redeliver(c) ==
    /\ sent[c] \in 1..(MaxCopies - 1) /\ cmd[c].way = "servicer"
    /\ sent' = [sent EXCEPT ![c] = @ + 1] /\ copies' = [copies EXCEPT ![c] = @ + 1]
    /\ UNCHANGED <<cmd, handlers, answer, seen, runs, excused>>

\* Mutant: the newest key makes room when the store is full.
MUT_Marked(c) == IF Contains(seen, c) \/ Len(seen) >= MaxKeys THEN seen ELSE Append(seen, c)

\* mark_processed: the oldest key makes room.
Marked(c) == IF Contains(seen, c) THEN seen
             ELSE Append(IF Len(seen) >= MaxKeys THEN Tail(seen) ELSE seen, c)

\* Mutant: the failed work's key is not told from a finished one's: it is marked at the check.
MUT_Receive(c) ==
    /\ copies[c] > 0 /\ cmd[c].way = "servicer"
    /\ copies' = [copies EXCEPT ![c] = @ - 1]
    /\ IF Contains(seen, c)
       THEN answer' = [answer EXCEPT ![c] = "ok"] /\ UNCHANGED <<handlers, seen>>
       ELSE handlers' = [handlers EXCEPT ![c] = @ + 1] /\ seen' = Marked(c) /\ UNCHANGED answer
    /\ UNCHANGED <<cmd, sent, runs, excused>>

Receive(c) ==
    /\ copies[c] > 0 /\ cmd[c].way = "servicer"
    /\ copies' = [copies EXCEPT ![c] = @ - 1]
    /\ IF Contains(seen, c)
       THEN answer' = [answer EXCEPT ![c] = "ok"] /\ UNCHANGED <<handlers, excused>>
       ELSE /\ handlers' = [handlers EXCEPT ![c] = @ + 1] /\ UNCHANGED answer
            /\ excused' = IF handlers[c] > 0 THEN excused \cup {c} ELSE excused
    /\ UNCHANGED <<cmd, sent, seen, runs>>

\* The key is marked in the same turn of the event loop that ends the work.
WorkSucceeds(c) ==
    /\ handlers[c] > 0
    /\ handlers' = [handlers EXCEPT ![c] = @ - 1] /\ runs' = [runs EXCEPT ![c] = @ + 1]
    /\ seen' = Marked(c) /\ excused' = excused \cup (Range(seen) \ Range(seen'))
    /\ answer' = [answer EXCEPT ![c] = "ok"]
    /\ UNCHANGED <<cmd, copies, sent>>

WorkFails(c) ==
    /\ handlers[c] > 0
    /\ handlers' = [handlers EXCEPT ![c] = @ - 1]
    /\ answer' = [answer EXCEPT ![c] = "failed"]
    /\ UNCHANGED <<cmd, copies, sent, seen, runs, excused>>

\* The HTTP server has no launch endpoint; the others carry the request out or fail.
HttpHandles(c, works) ==
    /\ copies[c] > 0 /\ cmd[c].way = "http" /\ (works => cmd[c].kind # "launch")
    /\ copies' = [copies EXCEPT ![c] = @ - 1]
    /\ runs' = [runs EXCEPT ![c] = IF works THEN @ + 1 ELSE @]
    /\ answer' = [answer EXCEPT ![c] = IF works THEN "ok" ELSE "failed"]
    /\ UNCHANGED <<cmd, sent, handlers, seen, excused>>

\* Calls that are open break off, and the keys were only in memory.
AgentRestarts ==
    /\ seen # <<>> \/ \E c \in Commands : handlers[c] > 0
    /\ seen' = <<>> /\ excused' = excused \cup Range(seen)
    /\ handlers' = [c \in Commands |-> 0]
    /\ answer' = [c \in Commands |-> IF handlers[c] > 0 THEN "failed" ELSE answer[c]]
    /\ UNCHANGED <<cmd, copies, sent, runs>>

CommandsNext ==
    \/ \E c \in Commands :
        \/ \E kind \in CommandType, way \in {"servicer", "http"} : Dispatch(c, kind, way)
        \/ AnswerArrives(c) \/ DispatchTimesOut(c) \/ Redeliver(c)
        \/ Receive(c) \/ WorkSucceeds(c) \/ WorkFails(c)
        \/ \E b \in BOOLEAN : CallerEnds(c, b) \/ HttpHandles(c, b)
    \/ AgentRestarts

CommandsSpec == CommandsInit /\ [][CommandsNext]_commandVars

-----------------------------------------------------------------------------

\* Every variable of the command channel keeps its type.
CommandsTypeOK ==
    /\ cmd \in [Commands -> Command]
    /\ copies \in [Commands -> 0..MaxCopies] /\ sent \in [Commands -> 0..MaxCopies]
    /\ handlers \in [Commands -> 0..MaxCopies]
    /\ answer \in [Commands -> {"none", "ok", "failed"}]
    /\ seen \in Seq(Commands) /\ Len(seen) <= MaxKeys
    /\ runs \in [Commands -> 0..MaxCopies] /\ excused \subseteq Commands

\* A command recorded as acknowledged was carried out by the agent, also when
\* the answer that acknowledged it was a replay (_dispatch_command, Launch,
\* Stop, Terminate, mark_processed).
AckedRan == \A c \in Commands : cmd[c].row = "acked" => runs[c] > 0

\* The servicer carries a key out once, unless two deliveries of it passed the
\* check together, or the store had dropped the key for newer ones or in a
\* restart (HostAgentCommandServicer, idempotency_store).
RunsOnceUnlessExcused ==
    \A c \in Commands : runs[c] > 1 => c \in excused

-----------------------------------------------------------------------------
(* Claims of the code's own text that its behaviour contradicts *)

\* idempotency_store.py: "Ensures retried commands (due to network blips or timeouts)
\* never re-execute workloads".
NeverRunsTwice == \A c \in Commands : runs[c] <= 1
=============================================================================
