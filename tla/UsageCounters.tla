----------------------------- MODULE UsageCounters -----------------------------
(***************************************************************************)
(* The seconds of one instance as they are counted: instances.             *)
(* billed_seconds, which the meter of provisioning_service increments and  *)
(* the debit chains of wallet_billing_service read and write back, the     *)
(* job row's billed_seconds_total, and the usage rows of the wallet (as    *)
(* long as the class has the columns they are built with; see              *)
(* WalletColumns of WalletLedger).                                         *)
(***************************************************************************)
EXTENDS Naturals, FiniteSets

CONSTANTS
    DebitChains,
    TickSeconds,    \* TICK_SECONDS
    MaxDebits,      \* bound: committed debits
    MaxTicks,       \* bound: increments of the meter
    MaxRepeats      \* bound: messages delivered or retried after their commit

ASSUME UsageAssumption ==
    /\ IsFiniteSet(DebitChains) /\ TickSeconds \in Nat \ {0}
    /\ {MaxDebits, MaxTicks, MaxRepeats} \subseteq Nat

VARIABLES
    running,    \* instances.status = running
    billed,     \* instances.billed_seconds
    job,        \* the row of billing_meter_jobs: none, open, or with stopped_at
    total,      \* its billed_seconds_total
    meter,      \* the message of meter_instance_usage
    debit,      \* the message of each chain of debit_running_instance, and what it has read
    ticks,      \* increments the meter has committed
    charged,    \* usage rows of the wallet
    planned,    \* messages of debit_running_instance dispatched for a tick of their own
    repeats,    \* messages that came back after the commit of their debit
    overlapped, \* billed_seconds changed between a debit's read and its write
    missed      \* (history) debits committed that had found no open row of the job

usageVars == <<running, billed, job, total, meter, debit, ticks, charged, planned,
               repeats, overlapped, missed>>

Done      == [step |-> "done"]
Queued    == [step |-> "queued"]
Committed == [step |-> "committed"]
Message   == {Done, Queued, Committed}
             \cup [step: {"read"}, billed: Nat]
             \cup [step: {"flushed"}, billed: Nat, open: BOOLEAN, total: Nat]

\* One chain, or the two that a handler and the sweep have both started: each
\* dispatches its chain before it inserts the job's row.
UsageInit ==
    /\ running = TRUE /\ job = "none"
    /\ billed = 0 /\ total = 0 /\ ticks = 0 /\ charged = 0 /\ repeats = 0 /\ missed = 0
    /\ meter = "queued" /\ overlapped = FALSE
    /\ debit \in [DebitChains -> {Queued, Done}]
    /\ planned = Cardinality({c \in DebitChains : debit[c] = Queued})
    /\ planned # 0

Reading == {c \in DebitChains : debit[c].step = "read"}

\* The first flush of a debit takes the locks of the instance's row and the wallet's.
RowsAreFree == \A c \in DebitChains : debit[c].step # "flushed"

-----------------------------------------------------------------------------
(* meter_instance_usage.                                                    *)

MeterReads ==
    /\ meter = "queued" /\ ticks < MaxTicks
    /\ meter' = IF running THEN "debited" ELSE "over"
    /\ UNCHANGED <<running, billed, job, total, debit, ticks, charged, planned, repeats,
                   overlapped, missed>>

\* The increment is computed by the database; the status is not looked at again.
MeterCounts ==
    /\ meter = "debited" /\ RowsAreFree
    /\ billed' = billed + 1
    /\ ticks' = ticks + 1
    /\ meter' \in {"queued", "over"}
    /\ overlapped' = (overlapped \/ Reading # {})
    /\ UNCHANGED <<running, job, total, debit, charged, planned, repeats, missed>>

-----------------------------------------------------------------------------
(* debit_running_instance.                                                  *)

DebitLooks(c) ==
    /\ debit[c] = Queued /\ charged < MaxDebits
    /\ debit' = [debit EXCEPT ![c] =
                    IF running THEN [step |-> "read", billed |-> billed] ELSE Done]
    /\ UNCHANGED <<running, billed, job, total, meter, ticks, charged, planned, repeats,
                   overlapped, missed>>

MUT_DebitFlushes(c) ==
    /\ c \in Reading
    /\ debit' = [debit EXCEPT ![c] =
          [step |-> "flushed", billed |-> @.billed, open |-> job = "open", total |-> total]]
    /\ UNCHANGED <<running, billed, job, total, meter, ticks, charged, planned, repeats,
                   overlapped, missed>>

\* The query for the job row flushes the debit first, so that it waits for the others.
DebitFlushes(c) ==
    /\ c \in Reading /\ RowsAreFree
    /\ debit' = [debit EXCEPT ![c] =
          [step |-> "flushed", billed |-> @.billed, open |-> job = "open", total |-> total]]
    /\ UNCHANGED <<running, billed, job, total, meter, ticks, charged, planned, repeats,
                   overlapped, missed>>

DebitWrites(c) ==
    /\ debit[c].step = "flushed"
    /\ billed' = debit[c].billed + TickSeconds
    /\ total' = IF debit[c].open THEN debit[c].total + TickSeconds ELSE total
    /\ missed' = IF debit[c].open THEN missed ELSE missed + 1
    /\ charged' = charged + 1
    /\ overlapped' = (overlapped \/ Reading # {})
    /\ debit' = [debit EXCEPT ![c] = Committed]
    /\ UNCHANGED <<running, job, meter, ticks, planned, repeats>>

\* The next tick is dispatched, and the message acknowledged.
DebitGoesOn(c) ==
    /\ debit[c] = Committed
    /\ planned' = planned + 1
    /\ debit' = [debit EXCEPT ![c] = Queued]
    /\ UNCHANGED <<running, billed, job, total, meter, ticks, charged, repeats, overlapped,
                   missed>>

MUT_DebitFails(c) ==
    /\ debit[c].step \in {"read", "flushed"}
    /\ charged' = charged + (IF c \in Reading THEN 0 ELSE 1)
    /\ debit' \in {[debit EXCEPT ![c] = Queued], [debit EXCEPT ![c] = Done]}
    /\ UNCHANGED <<running, billed, job, total, meter, ticks, planned, repeats, overlapped,
                   missed>>

\* Before the commit a retry or a redelivery starts from nothing.
DebitFails(c) ==
    /\ debit[c].step \in {"read", "flushed"}
    /\ debit' \in {[debit EXCEPT ![c] = Queued], [debit EXCEPT ![c] = Done]}
    /\ UNCHANGED <<running, billed, job, total, meter, ticks, charged, planned, repeats,
                   overlapped, missed>>

\* After it the dispatch of the next tick fails and the task is retried, or its worker
\* dies, before that dispatch or between it and the acknowledgement.
DebitRepeats(c) ==
    /\ debit[c] = Committed /\ repeats < MaxRepeats
    /\ repeats' = repeats + 1
    /\ \/ /\ debit' = [debit EXCEPT ![c] = Queued]
          /\ UNCHANGED planned
       \/ \E d \in DebitChains :
             /\ debit[d] = Done
             /\ debit' = [debit EXCEPT ![c] = Queued, ![d] = Queued]
             /\ planned' = planned + 1
    /\ UNCHANGED <<running, billed, job, total, meter, ticks, charged, overlapped, missed>>

-----------------------------------------------------------------------------
(* The job's row, inserted once the chain is dispatched (or never: its insert is  *)
(* rolled back), and the end of the instance: its row's, and later the job's.     *)

JobOpens ==
    /\ job = "none"
    /\ job' = "open"
    /\ UNCHANGED <<running, billed, total, meter, debit, ticks, charged, planned, repeats,
                   overlapped, missed>>

UsageEnds ==
    /\ running /\ RowsAreFree
    /\ running' = FALSE
    /\ UNCHANGED <<billed, job, total, meter, debit, ticks, charged, planned, repeats,
                   overlapped, missed>>

JobStops ==
    /\ ~running /\ job = "open"
    /\ job' = "stopped"
    /\ UNCHANGED <<running, billed, total, meter, debit, ticks, charged, planned, repeats,
                   overlapped, missed>>

UsageNext ==
    \/ MeterReads \/ MeterCounts
    \/ \E c \in DebitChains :
          DebitLooks(c) \/ DebitFlushes(c) \/ DebitWrites(c) \/ DebitGoesOn(c)
             \/ DebitFails(c) \/ DebitRepeats(c)
    \/ JobOpens \/ UsageEnds \/ JobStops

UsageSpec == UsageInit /\ [][UsageNext]_usageVars
-----------------------------------------------------------------------------
(* Properties that hold *)

\* Every variable keeps its type.
UsageTypeOK ==
    /\ {running, overlapped} \subseteq BOOLEAN /\ job \in {"none", "open", "stopped"}
    /\ {billed, total, ticks, charged, planned, repeats, missed} \subseteq Nat
    /\ meter \in {"queued", "debited", "over"}
    /\ debit \in [DebitChains -> Message]

\* billed_seconds is never more than was metered and debited, and is less only when it
\* changed between a debit's read and its write.
SecondsAreLostOnlyByOverlap ==
    /\ billed <= ticks + TickSeconds * charged
    /\ ~overlapped => billed = ticks + TickSeconds * charged

\* billed_seconds_total counts every debit, those that overlapped too, but for those
\* that found no open row: committed before it was inserted or after it was stopped.
TotalCountsDebits == total + TickSeconds * missed = TickSeconds * charged

\* A tick is charged a second time only by a message that came back after its commit.
ChargedOncePerTick == charged <= planned + repeats

-----------------------------------------------------------------------------
(* A claim of the code's own text that its behaviour contradicts *)

\* metering.py: billed_seconds_total is the "mirror of instances.billed_seconds".
TotalMirrorsBilled == running /\ RowsAreFree => total = billed
=============================================================================
