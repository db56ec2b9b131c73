----------------------------- MODULE GpuAnalytics -----------------------------
(***************************************************************************)
(* The statistics per GPU model: a refresh reads the unflagged suites,     *)
(* deletes the rows it sees and inserts new ones, in one transaction, and  *)
(* no constraint keeps a model to one row. The price/performance table is  *)
(* refreshed by the same steps and holds the same models here.             *)
(***************************************************************************)
EXTENDS Integers, FiniteSetsExt

CONSTANTS
    GpuModels, Refreshers,
    MaxRefreshes       \* bound: refreshes committed

ASSUME GpuAssumption == MaxRefreshes \in Nat

VARIABLES
    measured,   \* models with an unflagged suite
    stats,      \* committed gpu_model_stats: model, commit that wrote it, commits it had seen
    refresher,  \* the sessions
    commits     \* refreshes committed so far

gpuVars == <<measured, stats, refresher, commits>>

Resting == [step |-> "resting"]

GpuInit ==
    /\ measured = {} /\ stats = {} /\ commits = 0
    /\ refresher = [s \in Refreshers |-> Resting]

Measure(g) ==
    /\ g \notin measured
    /\ measured' = measured \cup {g}
    /\ UNCHANGED <<stats, refresher, commits>>

-----------------------------------------------------------------------------
(* refresh_gpu_benchmark_analytics.                                         *)

MUT_Aggregated == {g \in measured : \A h \in measured : h = g}

\* The models the aggregate query returns.
Aggregated == measured

RefreshReads(s) ==
    /\ refresher[s] = Resting /\ commits < MaxRefreshes
    /\ refresher' = [refresher EXCEPT ![s] = [step |-> "read", models |-> Aggregated, since |-> commits]]
    /\ UNCHANGED <<measured, stats, commits>>

MUT_Deleted == {}

\* What the DELETE finds when it starts.
Deleted == stats

\* It waits for the transactions that have deleted one of the same rows.
RefreshDeletes(s) ==
    /\ refresher[s].step = "read"
    /\ refresher' = [refresher EXCEPT ![s] =
          [step |-> "deleted", models |-> @.models, since |-> @.since, gone |-> Deleted,
           waits |-> {r \in Refreshers : /\ refresher[r].step = "deleted"
                                         /\ refresher[r].gone \cap Deleted # {}}]]
    /\ UNCHANGED <<measured, stats, commits>>

\* The end of a transaction lets those go on that wait for its rows.
Ended(s) ==
    [r \in Refreshers |->
        IF r = s THEN Resting
        ELSE IF refresher[r].step = "deleted"
        THEN [refresher[r] EXCEPT !.waits = @ \ {s}] ELSE refresher[r]]

RefreshCommits(s) ==
    /\ refresher[s].step = "deleted" /\ refresher[s].waits = {}
    /\ commits' = commits + 1
    /\ stats' = (stats \ refresher[s].gone) \cup
                {[model |-> g, n |-> commits', since |-> refresher[s].since] : g \in refresher[s].models}
    /\ refresher' = Ended(s)
    /\ UNCHANGED measured

RefreshFails(s) ==
    /\ refresher[s] # Resting
    /\ refresher' = Ended(s)
    /\ UNCHANGED <<measured, stats, commits>>

\* get_gpu_model_summaries; compare_gpu_models takes the first row of each side, of
\* several in no order, and gives a ratio only if there are both.
Summaries(g)  == {r \in stats : r.model = g}
Compared(a, b) == {<<p, q>> : p \in Summaries(a), q \in Summaries(b)}

GpuNext ==
    \/ \E g \in GpuModels : Measure(g)
    \/ \E s \in Refreshers :
          RefreshReads(s) \/ RefreshDeletes(s) \/ RefreshCommits(s) \/ RefreshFails(s)

GpuSpec == GpuInit /\ [][GpuNext]_gpuVars

-----------------------------------------------------------------------------
(* Properties *)

\* Every variable keeps its type.
GpuTypeOK ==
    /\ measured \subseteq GpuModels /\ commits \in Nat
    /\ \A r \in stats : r.model \in GpuModels /\ r.n \in 1..commits /\ r.since < r.n
    /\ DOMAIN refresher = Refreshers

\* A comparison of two models has one answer, unless one of them has two rows of
\* which the later refresh began before the earlier was committed.
ComparedOnce ==
    \A a, b \in GpuModels :
        Cardinality(Compared(a, b)) > 1 =>
            \E p, q \in Summaries(a) \cup Summaries(b) :
                p.model = q.model /\ p.n < q.n /\ q.since < p.n

\* A measured model drops out of the statistics only through a refresh that began
\* before the one that listed it was committed.
DropsAreStale ==
    [][\A r \in stats : \/ \E q \in stats' : q.model = r.model
                        \/ \E s \in Refreshers : /\ refresher[s].step = "deleted"
                                                 /\ refresher'[s] = Resting
                                                 /\ refresher[s].since < r.n]_gpuVars
=============================================================================
