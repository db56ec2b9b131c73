--------------------------- MODULE BenchmarkScores ---------------------------
(***************************************************************************)
(* Benchmark suites of the hosts of one GPU model: a suite is judged       *)
(* against the range of its peers, stored, and the host is scored from its *)
(* latest suite, in two transactions of the request that brought it.       *)
(***************************************************************************)
EXTENDS Integers, FiniteSetsExt, Functions

CONSTANTS
    BenchHosts, BenchSessions,
    Suites,         \* results a suite may bring: functions from sub-tests to values
    AdminRanges,    \* rows gpu_model_envelopes may hold for a metric: <<min, max>>
    Windows,        \* what a week of heartbeats may look like
    Reliabilities,  \* composite_score of the newest reputation snapshot
    NoScore,        \* NULL
    MaxRuns, MaxScores    \* bounds

PerfWeights   == [fp16 |-> 40, fp32 |-> 35, bandwidth |-> 25]
HealthWeights == [thermal |-> 40, clock |-> 35, power |-> 25]
ScoreWeights  == [performance |-> 50, health |-> 30, reliability |-> 20]

ASSUME BenchAssumption ==
    /\ IsFiniteSet(BenchSessions) /\ MaxRuns \in Nat /\ MaxScores \in Nat
    /\ AdminRanges \subseteq Nat \X Nat /\ Reliabilities \subseteq Nat /\ NoScore \notin Int
    /\ \A v \in Suites : DOMAIN v \subseteq DOMAIN PerfWeights /\ \A m \in DOMAIN v : v[m] \in Nat
    /\ Windows \subseteq [samples : Nat, thermal : Nat \cup {NoScore}, power : Nat \cup {NoScore}]

VARIABLES
    ranges,     \* gpu_model_envelopes: the metrics an administrator gave a range
    runs,       \* committed suites; id is the order of their run_at
    bench,      \* the sessions
    scores,     \* committed host_scores; at is the order of their computed_at
    unscored    \* suites whose scoring failed after they were committed

benchVars == <<ranges, runs, bench, scores, unscored>>

Metrics == UNION {DOMAIN v : v \in Suites}
Idle    == [step |-> "idle"]

BenchInit ==
    /\ ranges \in UNION {[ms -> AdminRanges] : ms \in SUBSET Metrics}
    /\ runs = {} /\ scores = {} /\ unscored = {}
    /\ bench = [s \in BenchSessions |-> Idle]

-----------------------------------------------------------------------------
(* Ranges and scores.                                                       *)

Lowest(S)  == CHOOSE x \in S : \A y \in S : x <= y
Highest(S) == CHOOSE x \in S : \A y \in S : x >= y

\* The values of a metric the fleet's unflagged rows hold.
PeerValues(m) == {r.value[m] : r \in {q \in runs : m \in DOMAIN q.value /\ m \notin q.flags}}

\* get_peer_envelopes: the administrator's range, else that of the peers.
HasEnvelope(m) == m \in DOMAIN ranges \/ PeerValues(m) # {}
Allowed(m)     == IF m \in DOMAIN ranges THEN ranges[m]
                  ELSE <<Lowest(PeerValues(m)), Highest(PeerValues(m))>>

\* check_envelope
Flagged(m, v) == HasEnvelope(m) /\ ~(Allowed(m)[1] <= v /\ v <= Allowed(m)[2])

\* The range a value is scored in: the peers', else the administrator's.
ScoredIn(m) == IF PeerValues(m) # {} THEN <<Lowest(PeerValues(m)), Highest(PeerValues(m))>>
               ELSE ranges[m]

Normalised(v, low, high) ==
    IF high <= low THEN 1000
    ELSE Max({0, Min({1000, ((v - low) * 1000) \div (high - low)})})

Normal(m, v) == IF HasEnvelope(m) THEN Normalised(v, ScoredIn(m)[1], ScoredIn(m)[2]) ELSE 1000

MUT_Weighted(weights, part) ==
    LET present == {k \in DOMAIN part : part[k] # NoScore} IN
    IF present = {} THEN NoScore
    ELSE SumFunctionOnSet([k \in present |-> weights[k] * part[k]], present)
             \div SumFunctionOnSet(weights, DOMAIN weights)

\* A weighted mean of the parts there are, their weights made to sum to one.
Weighted(weights, part) ==
    LET present == {k \in DOMAIN part : part[k] # NoScore} IN
    IF present = {} THEN NoScore
    ELSE SumFunctionOnSet([k \in present |-> weights[k] * part[k]], present)
             \div SumFunctionOnSet(weights, present)

Performance(run) ==
    Weighted(PerfWeights, [m \in DOMAIN run.value |-> Normal(m, run.value[m])])

\* Stability of a reading over a window: none under three samples. The clock is
\* not among the columns that are read.
Health(w) ==
    Weighted(HealthWeights, [k \in {"thermal", "power"} |->
        IF w.samples < 3 THEN NoScore ELSE w[k]])

-----------------------------------------------------------------------------
(* POST /hosts/{id}/benchmarks/run, and the task that scores a host again.  *)

RunsOf(h) == {r \in runs : r.host = h}
MUT_Latest(h) == IF RunsOf(h) = {} THEN 0 ELSE Lowest({r.id : r \in RunsOf(h)})
Latest(h) == IF RunsOf(h) = {} THEN 0 ELSE Highest({r.id : r \in RunsOf(h)})

JudgeRun(s, h, v) ==
    /\ bench[s] = Idle
    /\ Cardinality(runs) + Cardinality({t \in BenchSessions : bench[t].step = "judged"}) < MaxRuns
    /\ bench' = [bench EXCEPT ![s] =
          [step |-> "judged", host |-> h, value |-> v,
           flags |-> {m \in DOMAIN v : Flagged(m, v[m])}]]
    /\ UNCHANGED <<ranges, runs, scores, unscored>>

\* A request that ends before this commit leaves nothing.
RunDropped(s) ==
    /\ bench[s].step = "judged"
    /\ bench' = [bench EXCEPT ![s] = Idle]
    /\ UNCHANGED <<ranges, runs, scores, unscored>>

RunCommits(s) ==
    LET id == Cardinality(runs) + 1 IN
    /\ bench[s].step = "judged"
    /\ runs' = runs \cup {[id |-> id, host |-> bench[s].host, value |-> bench[s].value,
                           flags |-> bench[s].flags]}
    /\ bench' = [bench EXCEPT ![s] = [step |-> "stored", host |-> bench[s].host, id |-> id]]
    /\ UNCHANGED <<ranges, scores, unscored>>

\* _recompute_benchmark_scores_for_host up to its save, in a request or in a task,
\* which stores no suite of its own.
Scored(h, w, rel) ==
    LET latest == {r \in RunsOf(h) : r.id = Latest(h)}
        perf   == IF latest = {} THEN NoScore ELSE Performance(CHOOSE r \in latest : TRUE)
    IN [host |-> h, run |-> Latest(h), since |-> Cardinality(runs),
        part |-> [performance |-> perf, health |-> Health(w), reliability |-> rel],
        composite |-> Weighted(ScoreWeights, [performance |-> perf, health |-> Health(w),
                                              reliability |-> rel])]

ScoreReads(s, h, w, rel) ==
    /\ \/ bench[s].step = "stored" /\ bench[s].host = h
       \/ bench[s] = Idle
    /\ Cardinality(scores) + Cardinality({t \in BenchSessions : bench[t].step = "scored"}) < MaxScores
    /\ bench' = [bench EXCEPT ![s] = [step |-> "scored", score |-> Scored(h, w, rel),
                                      id |-> IF bench[s] = Idle THEN 0 ELSE bench[s].id]]
    /\ UNCHANGED <<ranges, runs, scores, unscored>>

ScoreCommits(s) ==
    /\ bench[s].step = "scored"
    /\ scores' = scores \cup {[score |-> bench[s].score, at |-> Cardinality(scores) + 1]}
    /\ bench' = [bench EXCEPT ![s] = Idle]
    /\ UNCHANGED <<ranges, runs, unscored>>

\* The request or the worker ends here; nothing scores the suite again by itself.
ScoreFails(s) ==
    /\ bench[s].step \in {"stored", "scored"}
    /\ unscored' = unscored \cup ({bench[s].id} \ {0})
    /\ bench' = [bench EXCEPT ![s] = Idle]
    /\ UNCHANGED <<ranges, runs, scores>>

BenchNext ==
    \E s \in BenchSessions :
        \/ \E h \in BenchHosts :
              \/ \E v \in Suites : JudgeRun(s, h, v)
              \/ \E w \in Windows, rel \in Reliabilities : ScoreReads(s, h, w, rel)
        \/ RunDropped(s) \/ RunCommits(s) \/ ScoreCommits(s) \/ ScoreFails(s)

BenchSpec == BenchInit /\ [][BenchNext]_benchVars

-----------------------------------------------------------------------------
(* Properties *)

\* Every variable keeps its type.
BenchTypeOK ==
    /\ DOMAIN ranges \subseteq Metrics /\ DOMAIN bench = BenchSessions
    /\ \A r \in runs : r.id \in 1..MaxRuns /\ r.host \in BenchHosts /\ r.flags \subseteq DOMAIN r.value
    /\ \A p \in scores : p.at \in 1..MaxScores /\ p.score.run \in 0..MaxRuns
    /\ unscored \subseteq 1..MaxRuns

\* The score a host shows is that of its latest suite, unless that suite's scoring
\* is still open or has failed, or the score had been read before the suite was
\* stored.
LatestRunIsScored ==
    \A r \in runs :
        \/ \E q \in RunsOf(r.host) : q.id > r.id
        \/ r.id \in unscored
        \/ \E s \in BenchSessions : bench[s].step \in {"stored", "scored"} /\ bench[s].id = r.id
        \/ \E p \in scores : /\ p.score.host = r.host
                             /\ \A q \in scores : q.score.host = r.host => q.at <= p.at
                             /\ p.score.run = r.id \/ p.score.since < r.id

\* A composite lies between the least and the greatest of its parts: a part that is
\* missing is left out, not counted as nought.
CompositeBetweenParts ==
    \A p \in scores :
        LET parts == {p.score.part[k] : k \in DOMAIN p.score.part} \ {NoScore} IN
        parts # {} => p.score.composite \in Lowest(parts)..Highest(parts)

-----------------------------------------------------------------------------
(* A claim of the code's own text that its behaviour contradicts *)

\* check_envelope: without an administrator's range a result is accepted, "we never flag
\* what we can't verify".
OnlyAdminRangesFlag == \A r \in runs : r.flags \subseteq DOMAIN ranges
=============================================================================
