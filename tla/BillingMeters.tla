---------------------------- MODULE BillingMeters ----------------------------
(***************************************************************************)
(* How wallet_billing_service follows the life of an instance: the events  *)
(* of the Redis bus, the event loop of each replica, the billing_meter_jobs*)
(* rows, the chains of debit_running_instance tasks and the sweep that     *)
(* restarts missed meters.  provisioning_service is InstanceRecord, which  *)
(* InstanceLifecycle implements, together with the events it publishes.    *)
(***************************************************************************)
EXTENDS Naturals, Sequences, FiniteSets

CONSTANTS
    Instances,
    KillSwitchDeployed,
    Subscribers,     \* replicas of the service, each with its event loop
    Chains,          \* bound: debit chains alive at the same time
    NoInstance, NoChain,
    MaxBus,          \* bound: events a subscriber has yet to handle
    Lossy,           \* whether the bus may drop an event for a subscriber
    MaxFailures      \* bound: failures of workers and of their tasks

ASSUME MetersAssumption ==
    /\ NoInstance \notin Instances /\ NoChain \notin Chains
    /\ IsFiniteSet(Chains) /\ Chains # {} /\ IsFiniteSet(Subscribers)
    /\ MaxBus \in Nat /\ MaxFailures \in Nat
    /\ Lossy \in BOOLEAN /\ KillSwitchDeployed \in BOOLEAN

VARIABLES
    status, holdReleased, ssh, receipt,   \* the rows of InstanceRecord
    attempt,       \* provision_instance: not run, about to fail, or over
    owed,          \* events a provisioning worker is yet to publish
    bus,           \* each subscriber's undelivered events, in order
    handler,       \* each subscriber's handler, between its read and commit
    job, jobChain, \* the billing_meter_jobs row and the task id in it
    chain,         \* the debit chains
    sweep,         \* the sweep in progress
    stopKey,       \* the STOP key of provisioning_service, in Redis
    refunds,       \* refund transactions of the hold, by the replica
    failures

Record == INSTANCE InstanceRecord

record   == <<status, holdReleased, ssh, receipt>>
launches == <<attempt, owed>>
jobs     == <<job, jobChain>>
vars     == <<record, launches, bus, handler, jobs, chain, sweep, stopKey,
              refunds, failures>>

-----------------------------------------------------------------------------
(* Value sets and helpers *)

Attempt   == {"none", "open", "failing", "over"}
EventKind == {"running", "terminated", "failed"}
Event     == [kind: EventKind, inst: Instances]
JobState  == {"none", "active", "stopped"}
HandlerState == [pc: {"idle", "insert", "refund"},
                 inst: Instances \cup {NoInstance}, chain: Chains \cup {NoChain}]
\* recorded: the chain's message is still the first, the one whose id a job
\* row may hold.
ChainState == [pc: {"free", "due", "reading", "charged"},
               inst: Instances \cup {NoInstance},
               recorded: BOOLEAN]
\* at, sent: the instance being visited and the chain dispatched for it; mine:
\* the rows inserted so far, not yet committed.
SweepState == [on: BOOLEAN, todo: SUBSET Instances,
               at: Instances \cup {NoInstance}, sent: Chains \cup {NoChain},
               mine: [Instances -> Chains \cup {NoChain}]]

IdleHandler == [pc |-> "idle", inst |-> NoInstance, chain |-> NoChain]
FreeChain   == [pc |-> "free", inst |-> NoInstance, recorded |-> FALSE]
IdleSweep   == [on |-> FALSE, todo |-> {}, at |-> NoInstance,
                sent |-> NoChain, mine |-> [i \in Instances |-> NoChain]]

\* A slot no row, handler or sweep refers to stands for the next task.
FreeSlots == {c \in Chains :
    /\ chain[c].pc = "free" /\ sweep.sent # c
    /\ \A i \in Instances : /\ sweep.mine[i] # c
                            /\ job[i] = "active" => jobChain[i] # c
    /\ \A s \in Subscribers : handler[s].chain # c}

Dispatch(c, i) == chain' = [chain EXCEPT ![c] =
    [pc |-> "due", inst |-> i, recorded |-> TRUE]]

End(c) == chain' = [chain EXCEPT ![c] = FreeChain]

Live(i) == {c \in Chains : chain[c].inst = i /\ chain[c].pc # "free"}

\* The rows of i are locked by the provisioning that is about to fail it.
RowFree(i) == attempt[i] # "failing"

Init ==
    /\ Record!Init
    /\ attempt = [i \in Instances |-> "none"]
    /\ owed = [i \in Instances |-> {}]
    /\ bus = [s \in Subscribers |-> <<>>]
    /\ handler = [s \in Subscribers |-> IdleHandler]
    /\ job = [i \in Instances |-> "none"]
    /\ jobChain = [i \in Instances |-> NoChain]
    /\ chain = [c \in Chains |-> FreeChain]
    /\ sweep = IdleSweep
    /\ stopKey = [i \in Instances |-> FALSE]
    /\ refunds = [i \in Instances |-> [s \in Subscribers |-> 0]]
    /\ failures = 0

-----------------------------------------------------------------------------
(* provisioning_service, as this service sees it *)

billing == <<handler, jobs, chain, sweep, refunds, failures>>

Launch(i) ==
    /\ Record!Create(i)
    /\ attempt' = [attempt EXCEPT ![i] = "open"]
    /\ UNCHANGED <<owed, bus, stopKey, billing>>

Started(i) ==
    /\ attempt[i] = "open"
    /\ Record!Start(i)
    /\ attempt' = [attempt EXCEPT ![i] = "over"]
    /\ owed' = [owed EXCEPT ![i] = @ \cup {"running"}]
    /\ UNCHANGED <<bus, stopKey, billing>>

\* Mutants, which the properties below tell from the code, are named MUT_.
\* The event is published on a channel of its own.
MUT_FailingElsewhere(i) ==
    /\ attempt[i] = "open"
    /\ attempt' = [attempt EXCEPT ![i] = "failing"]
    /\ owed' = [owed EXCEPT ![i] = @ \cup {"unreachable"}]
    /\ UNCHANGED <<record, bus, stopKey, billing>>

\* INSTANCE_FAILED goes out before the transaction that fails the row commits.
Failing(i) ==
    /\ attempt[i] = "open"
    /\ attempt' = [attempt EXCEPT ![i] = "failing"]
    /\ owed' = [owed EXCEPT ![i] = @ \cup {"failed"}]
    /\ UNCHANGED <<record, bus, stopKey, billing>>

FailCommits(i) ==
    /\ attempt[i] = "failing" /\ "failed" \notin owed[i]
    /\ Record!Fail(i)
    /\ attempt' = [attempt EXCEPT ![i] = "over"]
    /\ UNCHANGED <<owed, bus, stopKey, billing>>

\* The worker dies first: the row keeps its status and the task runs again.
FailRollsBack(i) ==
    /\ attempt[i] = "failing"
    /\ failures < MaxFailures
    /\ failures' = failures + 1
    /\ attempt' = [attempt EXCEPT ![i] = "open"]
    /\ owed' = [owed EXCEPT ![i] = @ \ {"failed"}]
    /\ UNCHANGED <<record, bus, stopKey, handler, jobs, chain, sweep, refunds>>

\* Another delivery of the message, made while the first was still at work and
\* past the check of the status, goes on.
Redelivered(i) ==
    /\ attempt[i] = "over"
    /\ failures < MaxFailures
    /\ failures' = failures + 1
    /\ attempt' = [attempt EXCEPT ![i] = "open"]
    /\ UNCHANGED <<record, owed, bus, stopKey, handler, jobs, chain, sweep,
                   refunds>>

\* A blocked image or the agent's callback: failed without an event.
FailedSilently(i) ==
    /\ RowFree(i)
    /\ Record!Fail(i)
    /\ attempt' \in {attempt, [attempt EXCEPT ![i] = "over"]}
    /\ UNCHANGED <<owed, bus, stopKey, billing>>

\* terminate_instance sets the STOP key first, and publishes after the commit.
Terminated(i) ==
    /\ RowFree(i)
    /\ Record!Settle(i)
    /\ owed' = [owed EXCEPT ![i] = @ \cup {"terminated"}]
    /\ stopKey' = [stopKey EXCEPT ![i] = TRUE]
    /\ UNCHANGED <<attempt, bus, billing>>

Reported(i) ==
    /\ Record!Report(i)
    /\ UNCHANGED <<launches, bus, stopKey, billing>>

Killed(i) ==
    /\ RowFree(i)
    /\ Record!Kill(i)
    /\ UNCHANGED <<launches, bus, stopKey, billing>>

\* stop_instance, whose instance stays running, or a teardown yet to commit.
StopRequested(i) ==
    /\ status[i] # "none" /\ ~stopKey[i]
    /\ stopKey' = [stopKey EXCEPT ![i] = TRUE]
    /\ UNCHANGED <<record, launches, bus, billing>>

StopKeyExpires(i) ==
    /\ stopKey[i]
    /\ stopKey' = [stopKey EXCEPT ![i] = FALSE]
    /\ UNCHANGED <<record, launches, bus, billing>>

\* Redis hands the event to every subscriber that is connected; the publisher
\* may have died, or Redis be down, before anyone gets it.
Publish(i, e) ==
    /\ e \in owed[i]
    /\ \A s \in Subscribers : Len(bus[s]) < MaxBus
    /\ owed' = [owed EXCEPT ![i] = @ \ {e}]
    /\ \E S \in SUBSET Subscribers :
          /\ ~Lossy => S = Subscribers
          /\ bus' = [s \in Subscribers |->
                IF s \in S THEN Append(bus[s], [kind |-> e, inst |-> i])
                           ELSE bus[s]]
    /\ UNCHANGED <<record, attempt, stopKey, billing>>

-----------------------------------------------------------------------------
(* The event handlers.  Each replica's loop handles one event at a time.    *)

external == <<record, launches, stopKey>>

\* The loop of s takes the next event, which is e of instance i.
Takes(s, e, i) == /\ handler[s].pc = "idle" /\ bus[s] # <<>>
                  /\ Head(bus[s]) = [kind |-> e, inst |-> i]
                  /\ bus' = [bus EXCEPT ![s] = Tail(@)]

\* A job that is not stopped ends the handler; otherwise a chain is dispatched
\* before the job row is inserted.
HandleRunning(s, i) ==
    /\ Takes(s, "running", i)
    /\ \/ job[i] = "active" /\ UNCHANGED <<handler, chain>>
       \/ /\ job[i] # "active"
          /\ \E c \in FreeSlots :
                /\ Dispatch(c, i)
                /\ handler' = [handler EXCEPT ![s] =
                                 [pc |-> "insert", inst |-> i, chain |-> c]]
    /\ UNCHANGED <<external, jobs, sweep, refunds, failures>>

\* instance_id is unique, whether or not the job is stopped: the insert waits
\* for a sweep that has inserted the row, and fails if there is one.
InsertJob(s) ==
    LET i == handler[s].inst IN
    /\ handler[s].pc = "insert"
    /\ sweep.mine[i] = NoChain
    /\ IF job[i] = "none"
       THEN /\ job' = [job EXCEPT ![i] = "active"]
            /\ jobChain' = [jobChain EXCEPT ![i] = handler[s].chain]
       ELSE UNCHANGED jobs
    /\ handler' = [handler EXCEPT ![s] = IdleHandler]
    /\ UNCHANGED <<external, bus, chain, sweep, refunds, failures>>

\* Revokes the task id in the job row, which is that of the chain's first
\* message, and refunds the hold unless the teardown released it.
HandleTerminated(s, i) ==
    /\ Takes(s, "terminated", i)
    /\ IF job[i] = "active"
       THEN /\ job' = [job EXCEPT ![i] = "stopped"]
            /\ IF chain[jobChain[i]].recorded THEN End(jobChain[i])
               ELSE UNCHANGED chain
       ELSE UNCHANGED <<job, chain>>
    /\ IF holdReleased[i] THEN UNCHANGED <<record, refunds>>
       ELSE /\ RowFree(i)
            /\ Record!Release(i)
            /\ refunds' = [refunds EXCEPT ![i][s] = @ + 1]
    /\ UNCHANGED <<launches, stopKey, handler, jobChain, sweep, failures>>

\* The released hold is not checked.
MUT_FailedAlways(s, i) ==
    /\ Takes(s, "failed", i)
    /\ handler' = [handler EXCEPT ![s] =
                     [pc |-> "refund", inst |-> i, chain |-> NoChain]]
    /\ UNCHANGED <<external, jobs, chain, sweep, refunds, failures>>

\* The hold of a failed launch: read here, refunded in RefundCommit.
HandleFailed(s, i) ==
    /\ Takes(s, "failed", i)
    /\ handler' = IF holdReleased[i] THEN handler
                  ELSE [handler EXCEPT ![s] =
                          [pc |-> "refund", inst |-> i, chain |-> NoChain]]
    /\ UNCHANGED <<external, jobs, chain, sweep, refunds, failures>>

RefundCommit(s) ==
    LET i == handler[s].inst IN
    /\ handler[s].pc = "refund"
    /\ RowFree(i)
    /\ Record!Release(i)
    /\ refunds' = [refunds EXCEPT ![i][s] = @ + 1]
    /\ handler' = [handler EXCEPT ![s] = IdleHandler]
    /\ UNCHANGED <<launches, stopKey, bus, jobs, chain, sweep, failures>>

-----------------------------------------------------------------------------
(* debit_running_instance: a chain of messages, each debits and sends the   *)
(* next one.                                                                *)

metering == <<external, bus, handler, jobs, sweep, refunds>>

\* STOP is set, the instance is not running, or the wallet cannot pay.
DebitStops(c) ==
    /\ chain[c].pc = "due"
    /\ End(c)
    /\ UNCHANGED <<metering, failures>>

\* The status is not looked at.
MUT_DebitAnyStatus(c) ==
    /\ chain[c].pc = "due" /\ ~stopKey[chain[c].inst]
    /\ chain' = [chain EXCEPT ![c].pc = "reading"]
    /\ UNCHANGED <<metering, failures>>

DebitReads(c) ==
    /\ chain[c].pc = "due"
    /\ ~stopKey[chain[c].inst] /\ status[chain[c].inst] = "running"
    /\ chain' = [chain EXCEPT ![c].pc = "reading"]
    /\ UNCHANGED <<metering, failures>>

DebitCommits(c) ==
    /\ chain[c].pc = "reading"
    /\ chain' = [chain EXCEPT ![c].pc = "charged"]
    /\ UNCHANGED <<metering, failures>>

\* The next message has an id no row knows.
DebitNext(c) ==
    /\ chain[c].pc = "charged"
    /\ chain' = [chain EXCEPT ![c].pc = "due", ![c].recorded = FALSE]
    /\ UNCHANGED <<metering, failures>>

\* An error is retried under the same id, a dead worker's message redelivered
\* (acks_late); retries run out.
DebitFails(c) ==
    /\ chain[c].pc \in {"reading", "charged"}
    /\ failures < MaxFailures
    /\ failures' = failures + 1
    /\ End(c) \/ chain' = [chain EXCEPT ![c].pc = "due"]
    /\ UNCHANGED metering

-----------------------------------------------------------------------------
(* sweep_billing_meters: one transaction over all running instances.        *)

sweeping == <<external, bus, handler, refunds, failures>>

\* The query has no status filter.
MUT_SweepAll ==
    /\ ~sweep.on
    /\ sweep' = [sweep EXCEPT !.on = TRUE,
                              !.todo = {i \in Instances : status[i] # "none"}]
    /\ UNCHANGED <<sweeping, jobs, chain>>

SweepStart ==
    /\ ~sweep.on
    /\ sweep' = [sweep EXCEPT !.on = TRUE,
                              !.todo = {i \in Instances : status[i] = "running"}]
    /\ UNCHANGED <<sweeping, jobs, chain>>

\* A job that is not stopped is left alone; otherwise a chain is dispatched.
\* With every slot taken, the one behind a stopped job is not represented.
SweepVisit(i) ==
    /\ sweep.at = NoInstance /\ i \in sweep.todo
    /\ \/ /\ job[i] = "active"
          /\ sweep' = [sweep EXCEPT !.todo = @ \ {i}]
          /\ UNCHANGED chain
       \/ /\ job[i] # "active"
          /\ \E c \in FreeSlots :
                /\ Dispatch(c, i)
                /\ sweep' = [sweep EXCEPT !.at = i, !.sent = c]
       \/ /\ job[i] = "stopped" /\ FreeSlots = {}
          /\ sweep' = [sweep EXCEPT !.at = i]
          /\ UNCHANGED chain
    /\ UNCHANGED <<sweeping, jobs>>

\* The insert is an upsert.
MUT_SweepUpserts ==
    LET i == sweep.at IN
    /\ i # NoInstance
    /\ sweep' = [sweep EXCEPT !.todo = @ \ {i}, !.mine[i] = sweep.sent,
                              !.at = NoInstance, !.sent = NoChain]
    /\ UNCHANGED <<sweeping, jobs, chain>>

\* The row of a stopped job, or one a handler has inserted in the meantime,
\* fails the insert and with it the whole transaction.
SweepInsert ==
    LET i == sweep.at IN
    /\ i # NoInstance
    /\ sweep' = IF job[i] # "none" THEN IdleSweep
                ELSE [sweep EXCEPT !.todo = @ \ {i}, !.mine[i] = sweep.sent,
                                   !.at = NoInstance, !.sent = NoChain]
    /\ UNCHANGED <<sweeping, jobs, chain>>

SweepCommits ==
    /\ sweep.on /\ sweep.todo = {} /\ sweep.at = NoInstance
    /\ job' = [i \in Instances |->
                  IF sweep.mine[i] # NoChain THEN "active" ELSE job[i]]
    /\ jobChain' = [i \in Instances |->
                  IF sweep.mine[i] # NoChain THEN sweep.mine[i] ELSE jobChain[i]]
    /\ sweep' = IdleSweep
    /\ UNCHANGED <<sweeping, chain>>

-----------------------------------------------------------------------------

Provisioning(i) ==
    \/ Launch(i) \/ Started(i) \/ Failing(i) \/ FailCommits(i)
    \/ FailRollsBack(i) \/ Redelivered(i) \/ FailedSilently(i)
    \/ Terminated(i) \/ Reported(i) \/ Killed(i) \/ StopRequested(i) \/ StopKeyExpires(i)
    \/ \E e \in EventKind : Publish(i, e)

Handling(s) ==
    \/ \E i \in Instances : HandleRunning(s, i) \/ HandleTerminated(s, i)
                            \/ HandleFailed(s, i)
    \/ InsertJob(s) \/ RefundCommit(s)

Debit(c) == DebitStops(c) \/ DebitReads(c) \/ DebitCommits(c) \/ DebitNext(c)

Sweep == SweepStart \/ (\E i \in Instances : SweepVisit(i)) \/ SweepInsert
         \/ SweepCommits

Next ==
    \/ \E i \in Instances : Provisioning(i)
    \/ \E s \in Subscribers : Handling(s)
    \/ \E c \in Chains : Debit(c) \/ DebitFails(c)
    \/ Sweep

Spec == Init /\ [][Next]_vars

\* Celery delivers the message of a chain and its worker goes on.  Nothing is
\* assumed of publishers, event loops or the beat.
FairSpec == Spec /\ \A c \in Chains : WF_vars(Debit(c))

-----------------------------------------------------------------------------
(* Properties that hold *)

\* Every variable keeps its type.
TypeOK ==
    /\ status \in [Instances -> {"none", "pending", "running", "terminated", "failed"}]
    /\ holdReleased \in [Instances -> BOOLEAN]
    /\ ssh \in [Instances -> {"none", "live", "revoked"}]
    /\ receipt \in [Instances -> {"none", "verified", "unverified"}]
    /\ attempt \in [Instances -> Attempt]
    /\ owed \in [Instances -> SUBSET EventKind]
    /\ bus \in [Subscribers -> Seq(Event)]
    /\ handler \in [Subscribers -> HandlerState]
    /\ job \in [Instances -> JobState]
    /\ jobChain \in [Instances -> Chains \cup {NoChain}]
    /\ chain \in [Chains -> ChainState]
    /\ sweep \in SweepState
    /\ stopKey \in [Instances -> BOOLEAN]
    /\ refunds \in [Instances -> [Subscribers -> Nat]]
    /\ failures \in Nat

\* A replica refunds the hold of an instance at most once, however often its
\* provisioning fails, rolls back, runs again and is torn down; and it begins a
\* refund only while none has been committed, so that a hold is refunded twice
\* only by two replicas that read it before either of them wrote it.
RefundsOverlap ==
    [][\A i \in Instances, s \in Subscribers :
          /\ refunds'[i][s] <= 1
          /\ handler[s].pc = "idle" /\ handler'[s].pc = "refund"
             /\ handler'[s].inst = i => \A r \in Subscribers : refunds[i][r] = 0]_vars

\* Only an instance that came up has a meter, whatever chains its late, repeated
\* or missed events and the sweep have started.
MeteredHasRun ==
    \A c \in Chains : chain[c].pc # "free" => ssh[chain[c].inst] # "none"

\* A lemma of the proofs: INSTANCE_TERMINATED reaches the bus only after its
\* hold was released, so _handle_instance_terminated computes no refund.
TerminatedEventIsLate ==
    \A i \in Instances :
        \/ holdReleased[i]
        \/ /\ "terminated" \notin owed[i]
           /\ \A s \in Subscribers : \A n \in 1..Len(bus[s]) :
                 bus[s][n] # [kind |-> "terminated", inst |-> i]

\* A stopped job is never revived and the task id of a row never replaced, by
\* a duplicate event, a late one or a sweep that looked before the insert.
JobRowIsFinal ==
    [][\A i \in Instances :
          /\ job[i] = "stopped" => job'[i] = "stopped"
          /\ job[i] # "none" => job'[i] # "none" /\ jobChain'[i] = jobChain[i]]_vars

\* The chains of an instance that does not run end, orphans included.
ChainsWindDown ==
    \A i \in Instances :
        status[i] # "running" /\ Live(i) # {}
            ~> (status[i] = "running" \/ Live(i) = {})

-----------------------------------------------------------------------------
(* Claims of the code's own text that its behaviour contradicts *)

\* metering.py: "tracks one active per-second billing loop per instance".
OneChainPerInstance == \A i \in Instances : Cardinality(Live(i)) <= 1

\* event_handlers.py: "Stops metering, finalizes billing, refunds unused hold".
StoppedIsRefunded ==
    \A i \in Instances :
        job[i] = "stopped" => \E s \in Subscribers : refunds[i][s] > 0

\* metering.py: the sweep "finds instances that are in 'running' state but have
\* no active BillingMeterJob" and "restarts metering for those instances".
SweepRestartsMetering ==
    \A i \in Instances :
        status[i] = "running" /\ job[i] # "active"
            ~> (status[i] # "running" \/ job[i] = "active")
=============================================================================
