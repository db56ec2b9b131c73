------------------------------ MODULE HostFleet ------------------------------
(***************************************************************************)
(* Hosts of host_service: registration by an agent, benchmarks, heartbeats,*)
(* the offline sweep, the re-benchmark sweep and the kill switch.          *)
(***************************************************************************)
EXTENDS Naturals, FiniteSets

CONSTANTS
    Hosts,         \* host ids
    BenchTypes,    \* BenchmarkType
    FleetWorkers,  \* benchmark submissions that may run at a time
    NoHost,
    NoModel,
    MaxBeats       \* bound: process_heartbeat tasks queued for a host

ASSUME FleetAssumption == NoHost \notin Hosts /\ MaxBeats \in Nat

VARIABLES
    host,     \* the hosts rows
    stored,   \* benchmark types with a host_benchmarks row
    lastRun,  \* age of the newest of them
    beat,     \* age of the newest host_heartbeats row
    queued,   \* process_heartbeat tasks in the broker
    agent,    \* the host id in the agent's config.json
    submit,   \* what each benchmark submission has read
    sweep,    \* hosts a running mark_offline_sweep has selected
    caught,   \* of those, hosts the kill switch has suspended since
    signals   \* hosts a rebenchmark command was published for

fleetVars == <<host, stored, lastRun, beat, queued, agent, submit, sweep, caught,
               signals>>

HostStatus == {"none", "PENDING_VERIFICATION", "BENCHMARKING", "VERIFIED", "LISTED",
               "FLAGGED", "SUSPENDED"}
Age        == {"none", "new", "old"}
Submission == [host: Hosts \cup {NoHost}, types: SUBSET BenchTypes, rerun: BOOLEAN,
               complete: BOOLEAN]
Idle       == [host |-> NoHost, types |-> {}, rerun |-> FALSE, complete |-> FALSE]
Listable   == {"VERIFIED", "LISTED"}

FleetInit ==
    /\ host = [h \in Hosts |-> [status |-> "none", spec |-> FALSE, bench |-> FALSE]]
    /\ stored = [h \in Hosts |-> {}] /\ lastRun = [h \in Hosts |-> "none"]
    /\ beat = [h \in Hosts |-> "none"] /\ queued = [h \in Hosts |-> 0]
    /\ agent = NoHost /\ submit = [w \in FleetWorkers |-> Idle]
    /\ sweep = {} /\ caught = {} /\ signals = {}

-----------------------------------------------------------------------------
(* verify_hardware_spec, over specifications that reach each of its checks. *)

KnownVram == [a100 |-> 80, l4 |-> 24]      \* rows of KNOWN_GPU_SIGNATURES
Tolerance == 10                            \* per cent
NoVram    == 0                             \* gpu_vram_gb = None

Specs == [ram: {0, 16}, cores: {8}, disk: {5, 500}, gpus: {0, 1, 2},
          gpu: {"a100", "l4", "unknown", NoModel}, vram: {NoVram, 21, 24, 48, 80}]

\* Several cards may be reported by their total.
PerCard(s) == IF s.gpus > 1 /\ 2 * s.vram > 3 * KnownVram[s.gpu]
              THEN s.vram \div s.gpus ELSE s.vram

Off(a, b) == IF a > b THEN a - b ELSE b - a

SpecPasses(s) ==
    /\ s.ram >= 1 /\ s.cores >= 1 /\ s.disk >= 10
    /\ s.gpus > 0 => s.gpu # NoModel
    /\ s.gpus > 0 /\ s.gpu \in DOMAIN KnownVram /\ s.vram # NoVram =>
          100 * Off(PerCard(s), KnownVram[s.gpu]) <= Tolerance * KnownVram[s.gpu]

-----------------------------------------------------------------------------
(* Requests of the agent and of the host's owner.                           *)

\* An agent whose answer was lost has no host id, and registers another host.
AgentKeeps(h) == agent' \in {h, NoHost}

Register(h, passed) ==
    /\ agent = NoHost /\ host[h].status = "none"
    /\ host' = [host EXCEPT ![h] =
          [status |-> IF passed THEN "BENCHMARKING" ELSE "FLAGGED", spec |-> passed,
           bench |-> FALSE]]
    /\ AgentKeeps(h)
    /\ UNCHANGED <<stored, lastRun, beat, queued, submit, sweep, caught, signals>>

\* The suite the agent runs has a type that the schema refuses, so the agent's own
\* submission is not accepted; another client of the API sends what it likes.
AgentSuite      == BenchTypes \cup {"disk_io"}
Accepted(types) == types \subseteq BenchTypes

MUT_SubmitReads(w, h, types) ==
    /\ submit[w] = Idle /\ host[h].status # "none" /\ Accepted(types)
    /\ submit' = [submit EXCEPT ![w] =
          [host |-> h, types |-> types, rerun |-> host[h].status \in Listable,
           complete |-> stored[h] \cup types # {}]]
    /\ UNCHANGED <<host, stored, lastRun, beat, queued, agent, sweep, caught, signals>>

\* A re-run is decided by the status read; rows another submission has not
\* committed are not seen.
SubmitReads(w, h, types) ==
    /\ submit[w] = Idle /\ host[h].status # "none" /\ Accepted(types)
    /\ submit' = [submit EXCEPT ![w] =
          [host |-> h, types |-> types, rerun |-> host[h].status \in Listable,
           complete |-> stored[h] \cup types = BenchTypes]]
    /\ UNCHANGED <<host, stored, lastRun, beat, queued, agent, sweep, caught, signals>>

\* mark_benchmark_verified, over whatever status the host has.
SubmitCommits(w) ==
    LET s == submit[w] IN
    /\ s # Idle
    /\ stored' = [stored EXCEPT ![s.host] = @ \cup s.types]
    /\ lastRun' = [lastRun EXCEPT ![s.host] = "new"]
    /\ host' = IF s.complete /\ ~s.rerun
               THEN [host EXCEPT ![s.host].status = "VERIFIED", ![s.host].bench = TRUE]
               ELSE host
    /\ submit' = [submit EXCEPT ![w] = Idle]
    /\ UNCHANGED <<beat, queued, agent, sweep, caught, signals>>

SubmitFails(w) ==
    /\ submit[w] # Idle
    /\ submit' = [submit EXCEPT ![w] = Idle]
    /\ UNCHANGED <<host, stored, lastRun, beat, queued, agent, sweep, caught, signals>>

\* The agent's heartbeat thread, once it has an id.
AgentBeats == agent # NoHost

\* 403 for a suspended host.
Heartbeat ==
    /\ AgentBeats
    /\ host[agent].status # "SUSPENDED" /\ queued[agent] < MaxBeats
    /\ queued' = [queued EXCEPT ![agent] = @ + 1]
    /\ UNCHANGED <<host, stored, lastRun, beat, agent, submit, sweep, caught, signals>>

-----------------------------------------------------------------------------
(* Celery tasks; a task lost with its worker is delivered again.            *)

\* recorded_at is the time of the insertion, not of the heartbeat.
ProcessBeat(h) ==
    /\ queued[h] > 0
    /\ beat' = [beat EXCEPT ![h] = "new"]
    /\ queued' \in {queued, [queued EXCEPT ![h] = @ - 1]}
    /\ UNCHANGED <<host, stored, lastRun, agent, submit, sweep, caught, signals>>

\* A task that fails is acknowledged; what it would retry is lost with its last try.
BeatIsLost(h) ==
    /\ queued[h] > 0
    /\ queued' = [queued EXCEPT ![h] = @ - 1]
    /\ UNCHANGED <<host, stored, lastRun, beat, agent, submit, sweep, caught, signals>>

MUT_SweepReads ==
    /\ sweep = {}
    /\ sweep' = {h \in Hosts : /\ host[h].status \notin {"none", "SUSPENDED", "FLAGGED"}
                               /\ beat[h] = "old"}
    /\ UNCHANGED <<host, stored, lastRun, beat, queued, agent, submit, caught, signals>>

MUT_SweepAll ==
    /\ sweep = {}
    /\ sweep' = {h \in Hosts : host[h].status # "none" /\ beat[h] # "new"}
    /\ UNCHANGED <<host, stored, lastRun, beat, queued, agent, submit, caught, signals>>

\* The outer join keeps hosts without any heartbeat.
SweepReads ==
    /\ sweep = {}
    /\ sweep' = {h \in Hosts : /\ host[h].status \notin {"none", "SUSPENDED", "FLAGGED"}
                               /\ beat[h] # "new"}
    /\ UNCHANGED <<host, stored, lastRun, beat, queued, agent, submit, caught, signals>>

\* The UPDATE names the ids and looks at neither status nor heartbeat again.
SweepCommits ==
    /\ sweep # {}
    /\ host' = [h \in Hosts |-> IF h \in sweep
                                THEN [host[h] EXCEPT !.status = "PENDING_VERIFICATION"]
                                ELSE host[h]]
    /\ sweep' = {} /\ caught' = {}
    /\ UNCHANGED <<stored, lastRun, beat, queued, agent, submit, signals>>

SweepDies ==
    /\ sweep # {}
    /\ sweep' = {} /\ caught' = {}
    /\ UNCHANGED <<host, stored, lastRun, beat, queued, agent, submit, signals>>

\* The sweep asks only for listable hosts with old benchmarks, the rerun route for any
\* host of the caller; both publish on a channel no agent listens to.
TriggerRebenchmark(h) ==
    /\ host[h].status # "none"
    /\ signals' = signals \cup {h}
    /\ UNCHANGED <<host, stored, lastRun, beat, queued, agent, submit, sweep, caught>>

\* trigger_emergency_kill_switch.
KillHost(h) ==
    /\ host[h].status \notin {"none", "SUSPENDED"}
    /\ host' = [host EXCEPT ![h].status = "SUSPENDED"]
    /\ caught' = caught \cup ({h} \cap sweep)
    /\ UNCHANGED <<stored, lastRun, beat, queued, agent, submit, sweep, signals>>

\* heartbeat_timeout_seconds, rebenchmark_interval_hours.
Grows(h) ==
    /\ \/ beat[h] = "new" /\ beat' = [beat EXCEPT ![h] = "old"] /\ UNCHANGED lastRun
       \/ lastRun[h] = "new" /\ lastRun' = [lastRun EXCEPT ![h] = "old"] /\ UNCHANGED beat
    /\ UNCHANGED <<host, stored, queued, agent, submit, sweep, caught, signals>>

FleetNext ==
    \/ \E h \in Hosts, s \in Specs : Register(h, SpecPasses(s))
    \/ \E w \in FleetWorkers :
          \/ \E h \in Hosts, types \in SUBSET AgentSuite \ {{}} : SubmitReads(w, h, types)
          \/ SubmitCommits(w) \/ SubmitFails(w)
    \/ Heartbeat \/ SweepReads \/ SweepCommits \/ SweepDies
    \/ \E h \in Hosts :
          \/ ProcessBeat(h) \/ BeatIsLost(h) \/ TriggerRebenchmark(h)
          \/ KillHost(h) \/ Grows(h)

\* Celery beat starts a sweep every ten minutes and a sweep does not always die.
SweepFairness == WF_fleetVars(SweepReads /\ sweep' # {}) /\ SF_fleetVars(SweepCommits)

FleetSpec == FleetInit /\ [][FleetNext]_fleetVars /\ SweepFairness

-----------------------------------------------------------------------------
(* Properties that hold *)

\* Every variable keeps its type.
FleetTypeOK ==
    /\ host \in [Hosts -> [status: HostStatus, spec: BOOLEAN, bench: BOOLEAN]]
    /\ stored \in [Hosts -> SUBSET BenchTypes] /\ lastRun \in [Hosts -> Age]
    /\ beat \in [Hosts -> Age] /\ queued \in [Hosts -> 0..MaxBeats]
    /\ agent \in Hosts \cup {NoHost} /\ submit \in [FleetWorkers -> Submission]
    /\ caught \subseteq sweep /\ sweep \subseteq Hosts /\ signals \subseteq Hosts

\* A host is verified only once every benchmark has been stored, whatever
\* submissions, sweeps and suspensions overlapped.
VerifiedIsMeasured ==
    \A h \in Hosts : host[h].status = "VERIFIED" \/ host[h].bench =>
        stored[h] = BenchTypes

\* The sweep lifts the suspension of no host but those the kill switch suspended between
\* the sweep's select and its update (those it does lift, for the update looks at
\* nothing again): not that of a host suspended before, nor after a sweep that died.
SweepSparesSuspended ==
    [][\A h \in Hosts :
          /\ host[h].status = "SUSPENDED" /\ host'[h].status = "PENDING_VERIFICATION"
          => h \in caught]_fleetVars

\* A host that has gone silent for good is taken out of the verified hosts, the one
\* that never sent a heartbeat included.
SilentHostLeaves ==
    \A h \in Hosts :
        <>[](beat[h] # "new" /\ host[h].status # "none") =>
            []<>(host[h].status # "VERIFIED")

-----------------------------------------------------------------------------
(* Claims of the code's own text that its behaviour contradicts *)

\* routes.py: flagged hosts "can still communicate - they're not allowed to list":
\* a flagged host does not become verified.
FlaggedIsNotVerified ==
    [][\A h \in Hosts :
          host[h].status = "FLAGGED" => host'[h].status # "VERIFIED"]_fleetVars
=============================================================================
