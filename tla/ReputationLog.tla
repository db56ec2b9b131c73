---------------------------- MODULE ReputationLog ----------------------------
(***************************************************************************)
(* The reputation of one host: the append-only log of events, the          *)
(* snapshots computed from it with exponential decay, and hosts.trust_state,*)
(* under sessions of the vetting service and of the administrators' routes. *)
(***************************************************************************)
EXTENDS Integers, FiniteSetsExt, Functions

CONSTANTS
    RepSessions,   \* database sessions that may be open at a time
    History,       \* completed jobs the log starts with
    MaxEvents,     \* bound: events a session may still add
    MaxComputed,   \* bound: recomputations that may be told apart
    TrendLength,   \* limit of get_reputation_trend
    MaxRetries     \* max_retries of recompute_reputation

ASSUME RepAssumption ==
    /\ IsFiniteSet(RepSessions) /\ History \subseteq Nat /\ MaxEvents \in Nat /\ MaxComputed \in Nat
    /\ TrendLength \in Nat \ {0} /\ MaxRetries \in Nat

VARIABLES
    log,        \* committed reputation_events: how many of each kind and weight
    trust,      \* hosts.trust_state
    snapshots,  \* committed reputation_scores
    visit,      \* the sessions
    unseen,     \* a violation was committed after the log was read for trust
    shown,      \* what a request for the reputation has read
    recompute   \* attempts of the Celery task, which always fails

repVars == <<log, trust, snapshots, visit, unseen, shown, recompute>>

\* What the services emit, with event_type and impact_delta in thousandths: an
\* approval of the vetting service (0.10, or 0.15 after a review), its revocation,
\* and the administrators' actions, whose delta is the request's.
Kinds == [approved  |-> [type |-> "job_completed",     delta |-> 100],
          revoked   |-> [type |-> "violation_flagged", delta |-> -350],
          penalty   |-> [type |-> "manual_penalty",    delta |-> -250],
          heavy     |-> [type |-> "manual_penalty",    delta |-> -500],
          restore   |-> [type |-> "manual_restore",    delta |-> 250]]
Kind       == DOMAIN Kinds
AdminKinds == {"penalty", "heavy", "restore"}

\* An event has its full weight, or, many half-lives later, none.
Weights    == {1, 0}
TrustState == {"unverified", "building_trust", "established", "flagged"}

Closed == [step |-> "closed"]
Unread == [score |-> 0, points |-> {}]   \* the snapshots are numbered from 1

RepInit ==
    /\ \E n \in History : log = [e \in Kind \X Weights |->
                                    IF e = <<"approved", 1>> THEN n ELSE 0]
    /\ trust \in {"unverified", "building_trust"}
    /\ snapshots = {} /\ unseen = FALSE
    /\ visit = [s \in RepSessions |-> Closed]
    /\ shown = Unread /\ recompute = 0

-----------------------------------------------------------------------------
(* The score of a log.                                                      *)

Count(l, type) ==
    SumFunctionOnSet(l, {e \in Kind \X Weights : Kinds[e[1]].type = type})

MUT_Events(l) ==
    SumFunctionOnSet(l, {e \in Kind \X Weights : e[2] > 0})

Events(l) == SumFunctionOnSet(l, Kind \X Weights)

Clamp(low, high, x) == IF x < low THEN low ELSE IF x > high THEN high ELSE x

\* clamp(0.50 + sum of the decayed deltas), in thousandths.
Score(l) ==
    Clamp(0, 1000, 500 + SumFunctionOnSet([e \in Kind \X Weights |-> l[e] * Kinds[e[1]].delta * e[2]],
                                          Kind \X Weights))

MUT_TrustAfter(l, old) ==
    CASE Score(l) < 250 -> "flagged"
      [] Score(l) >= 250 ->
            IF Count(l, "job_completed") = 0 THEN old
            ELSE IF Score(l) >= 800 /\ Count(l, "job_completed") >= 10
            THEN "established" ELSE "building_trust"

\* Disputes, cancelled and failed jobs are emitted by no service.
TrustAfter(l, old) ==
    CASE Count(l, "violation_flagged") > 0 \/ Score(l) < 250 -> "flagged"
      [] Count(l, "violation_flagged") = 0 /\ Score(l) >= 250 ->
            IF Count(l, "job_completed") = 0 THEN old
            ELSE IF Score(l) >= 800 /\ Count(l, "job_completed") >= 10
            THEN "established" ELSE "building_trust"

\* The immediate check of emit_reputation_event.
Severe(k) == Kinds[k].type = "violation_flagged" \/ Kinds[k].delta < -300

-----------------------------------------------------------------------------
(* Sessions: emit, for the administrators recompute, commit.                *)

Opened(s)  == visit[s].step # "closed"
Added(s)   == [log EXCEPT ![<<visit[s].kind, 1>>] = @ + 1]
Pending    == Cardinality({s \in RepSessions : Opened(s)})
NoRowLock  == \A s \in RepSessions : Opened(s) => ~Severe(visit[s].kind)

\* The computed_at of the newest computation, of a snapshot or of an open session.
Now == Max({0} \cup {p.at : p \in snapshots}
               \cup {visit[s].snapshot.at : s \in {r \in RepSessions : visit[r].step = "computed"}})

\* The UPDATE of a severe event takes the host's row until the commit.
Emit(s, k) ==
    /\ ~Opened(s) /\ \E n \in History : Events(log) + Pending \in n..(n + MaxEvents - 1)
    /\ Severe(k) => NoRowLock
    /\ visit' = [visit EXCEPT ![s] = [step |-> "emitted", kind |-> k]]
    /\ UNCHANGED <<log, trust, snapshots, unseen, shown, recompute>>

\* compute_decayed_reputation sees the committed events and its own; what they make of the
\* trust state it has yet to read is in becomes.
Recompute(s) ==
    /\ visit[s].step = "emitted" /\ visit[s].kind \in AdminKinds
    /\ Now < MaxComputed
    /\ visit' = [visit EXCEPT ![s] =
          [step |-> "computed", kind |-> visit[s].kind, read |-> "unread",
           becomes |-> [old \in TrustState |-> TrustAfter(Added(s), old)],
           violations |-> Count(log, "violation_flagged"),
           snapshot |-> [at |-> Now + 1, score |-> Score(Added(s)),
                         events |-> Events(Added(s)),
                         alone |-> \A r \in RepSessions \ {s} : visit[r].step # "computed"]]]
    /\ UNCHANGED <<log, trust, snapshots, unseen, shown, recompute>>

\* Its second statement reads the host, as others have left it since the first, or as the
\* session's own UPDATE has.
ReadTrust(s) ==
    /\ visit[s].step = "computed" /\ visit[s].read = "unread"
    /\ visit' = [visit EXCEPT ![s].read = IF Severe(visit[s].kind) THEN "flagged" ELSE trust]
    /\ UNCHANGED <<log, trust, snapshots, unseen, shown, recompute>>

\* The trust state is written only where it differs from the one that was read.
Rewrites(s) == visit[s].step = "computed" /\ visit[s].becomes[visit[s].read] # visit[s].read

RepCommit(s) ==
    LET v == visit[s] IN
    /\ v.step = (IF Opened(s) /\ v.kind \in AdminKinds THEN "computed" ELSE "emitted")
    /\ v.step = "computed" => v.read # "unread"
    /\ Rewrites(s) => \A r \in RepSessions \ {s} : Opened(r) => ~Severe(visit[r].kind)
    /\ log' = Added(s)
    /\ snapshots' = IF v.step = "computed" THEN snapshots \cup {v.snapshot} ELSE snapshots
    /\ trust' = CASE Rewrites(s) -> v.becomes[v.read]
                  [] ~Rewrites(s) /\ Severe(v.kind) -> "flagged"
                  [] ~Rewrites(s) /\ ~Severe(v.kind) -> trust
    /\ unseen' = IF Rewrites(s) THEN v.violations < Count(log, "violation_flagged")
                 ELSE unseen /\ trust' # "flagged"
    /\ visit' = [visit EXCEPT ![s] = Closed]
    /\ UNCHANGED <<shown, recompute>>

RepRollback(s) ==
    /\ Opened(s)
    /\ visit' = [visit EXCEPT ![s] = Closed]
    /\ UNCHANGED <<log, trust, snapshots, unseen, shown, recompute>>

\* Time passes: every event in the log loses its weight.
WeightsFade ==
    /\ \A s \in RepSessions : ~Opened(s)
    /\ \E k \in Kind : log[<<k, 1>>] > 0
    /\ log' = [e \in Kind \X Weights |->
                  IF e[2] = 1 THEN 0 ELSE log[<<e[1], 0>>] + log[<<e[1], 1>>]]
    /\ UNCHANGED <<trust, snapshots, visit, unseen, shown, recompute>>

-----------------------------------------------------------------------------
(* Readers, and the Celery task.                                            *)

MUT_Newest(n) == {p \in snapshots : Cardinality({q \in snapshots : q.at < p.at}) < n}

Newest(n) == {p \in snapshots : Cardinality({q \in snapshots : q.at > p.at}) < n}

\* get_host_reputation: the newest snapshot, then, in a second statement, the trend;
\* without a snapshot the neutral score and no trend.
ShowScore ==
    /\ shown = Unread
    /\ shown' = IF snapshots = {} THEN Unread
                ELSE [score |-> (CHOOSE p \in Newest(1) : TRUE).at, points |-> {}]
    /\ UNCHANGED <<log, trust, snapshots, visit, unseen, recompute>>

ShowTrend ==
    /\ shown # Unread
    /\ shown' = IF shown.points = {}
                THEN [shown EXCEPT !.points = {p.at : p \in Newest(TrendLength)}]
                ELSE Unread
    /\ UNCHANGED <<log, trust, snapshots, visit, unseen, recompute>>

\* get_reputation_inputs names columns host_heartbeats does not have, so the task
\* raises and is retried; the hourly sweep ends at the first host.
RecomputeFails ==
    /\ recompute <= MaxRetries
    /\ recompute' = recompute + 1
    /\ UNCHANGED <<log, trust, snapshots, visit, unseen, shown>>

RepNext ==
    \/ \E s \in RepSessions :
          \/ \E k \in Kind : Emit(s, k)
          \/ Recompute(s) \/ ReadTrust(s) \/ RepCommit(s) \/ RepRollback(s)
    \/ WeightsFade \/ ShowScore \/ ShowTrend \/ RecomputeFails

RepSpec == RepInit /\ [][RepNext]_repVars

-----------------------------------------------------------------------------
(* Properties *)

\* Every variable keeps its type.
RepTypeOK ==
    /\ log \in [Kind \X Weights -> Nat] /\ trust \in TrustState
    /\ \A p \in snapshots : p.score \in 0..1000 /\ p.at \in 1..Now
    /\ DOMAIN visit = RepSessions /\ unseen \in BOOLEAN
    /\ recompute \in 0..(MaxRetries + 1)

\* A host with a recorded violation is flagged, whatever is restored afterwards,
\* unless a recomputation that had read the log before the violation was committed
\* has written the trust state since.
ViolationIsFlagged ==
    Count(log, "violation_flagged") > 0 => trust = "flagged" \/ unseen

\* Of two snapshots the later counts at least the events of the earlier, unless
\* they were computed side by side.
CountsGrow ==
    \A p, q \in snapshots : p.at < q.at /\ q.alone => p.events <= q.events

\* The score a page shows is a point of the trend it shows, unless recomputations
\* enough to fill the trend have been committed between the two reads.
TrendHasScore ==
    shown # Unread /\ shown.points # {} =>
        \/ shown.score \in shown.points
        \/ Cardinality({p \in shown.points : p > shown.score}) = TrendLength
=============================================================================
