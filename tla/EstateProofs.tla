----------------------------- MODULE EstateProofs -----------------------------
(***************************************************************************)
(* Proofs about the hosts and what runs on them, for any hosts, listings,  *)
(* commands and volumes and any number of workers: each component on its   *)
(* own, then the scenes of MCEstate.                                       *)
(***************************************************************************)
EXTENDS MCEstate, FiniteSetTheorems, TLAPS

-----------------------------------------------------------------------------
(* HostFleet *)

\* A submission that runs has a host; one that found every benchmark stored or its own
\* still finds them, as stored rows stay; a host that is selected by a sweep and then
\* suspended is one the kill switch has caught.
FleetInv ==
    /\ FleetTypeOK /\ VerifiedIsMeasured
    /\ \A w \in FleetWorkers : submit[w] # Idle =>
          /\ submit[w].host \in Hosts
          /\ submit[w].complete =>
                stored[submit[w].host] \cup submit[w].types = BenchTypes
    /\ \A h \in sweep : host[h].status = "SUSPENDED" => h \in caught

LEMMA FleetInitInv == FleetInit => FleetInv
  <1>. SUFFICES ASSUME FleetInit PROVE FleetInv
       OBVIOUS
  <1>1. host \in [Hosts -> [status: HostStatus, spec: BOOLEAN, bench: BOOLEAN]]
    <2>1. "none" \in HostStatus
          BY DEF HostStatus
    <2>. QED BY <2>1 DEF FleetInit
  <1>2. submit \in [FleetWorkers -> Submission] /\ \A w \in FleetWorkers : submit[w] = Idle
        BY DEF FleetInit, Submission, Idle
  <1>3. FleetTypeOK
        BY <1>1, <1>2, FleetAssumption DEF FleetInit, FleetTypeOK, Age
  <1>4. VerifiedIsMeasured
        BY DEF FleetInit, VerifiedIsMeasured
  <1>. QED BY <1>2, <1>3, <1>4 DEF FleetInv, FleetInit

\* A row that keeps its suspension and its measured state.
Row == [status: HostStatus, spec: BOOLEAN, bench: BOOLEAN]

LEMMA RowMoves ==
    ASSUME host \in [Hosts -> Row], NEW h \in Hosts, NEW r \in Row
    PROVE  /\ [host EXCEPT ![h] = r] \in [Hosts -> Row]
           /\ [host EXCEPT ![h] = r][h] = r
           /\ \A g \in Hosts : g # h => [host EXCEPT ![h] = r][g] = host[g]
  OBVIOUS

LEMMA RowStatus ==
    ASSUME NEW r \in Row, NEW s \in HostStatus
    PROVE  /\ [r EXCEPT !.status = s] \in Row
           /\ [r EXCEPT !.status = s].status = s
           /\ [r EXCEPT !.status = s].bench = r.bench
  BY DEF Row

LEMMA SubmitMoves ==
    ASSUME submit \in [FleetWorkers -> Submission], NEW w \in FleetWorkers,
           NEW s \in Submission
    PROVE  /\ [submit EXCEPT ![w] = s] \in [FleetWorkers -> Submission]
           /\ [submit EXCEPT ![w] = s][w] = s
           /\ \A v \in FleetWorkers : v # w => [submit EXCEPT ![w] = s][v] = submit[v]
  OBVIOUS

LEMMA IdleIsSubmission == Idle \in Submission
  BY DEF Idle, Submission

LEMMA FleetStep == ASSUME FleetInv, [FleetNext]_fleetVars PROVE FleetInv'
  <1>1. /\ host \in [Hosts -> Row]
        /\ stored \in [Hosts -> SUBSET BenchTypes] /\ lastRun \in [Hosts -> Age]
        /\ beat \in [Hosts -> Age] /\ queued \in [Hosts -> 0..MaxBeats]
        /\ agent \in Hosts \cup {NoHost} /\ submit \in [FleetWorkers -> Submission]
        /\ caught \subseteq sweep /\ sweep \subseteq Hosts /\ signals \subseteq Hosts
        BY DEF FleetInv, FleetTypeOK, Row
  <1>2. \A h \in Hosts : host[h].status = "VERIFIED" \/ host[h].bench => stored[h] = BenchTypes
        BY DEF FleetInv, VerifiedIsMeasured
  <1>3. \A w \in FleetWorkers : submit[w] # Idle =>
           /\ submit[w].host \in Hosts
           /\ submit[w].complete =>
                 stored[submit[w].host] \cup submit[w].types = BenchTypes
        BY DEF FleetInv
  <1>4. \A h \in sweep : host[h].status = "SUSPENDED" => h \in caught
        BY DEF FleetInv
  <1>5. "new" \in Age /\ "old" \in Age
        BY DEF Age
  <1>6. MaxBeats \in Nat /\ NoHost \notin Hosts
        BY FleetAssumption
  <1>7. ASSUME NEW h \in Hosts, NEW passed \in BOOLEAN, Register(h, passed) PROVE FleetInv'
    <2>1. PICK r : r = [status |-> IF passed THEN "BENCHMARKING" ELSE "FLAGGED",
                        spec |-> passed, bench |-> FALSE]
          OBVIOUS
    <2>2. /\ host' = [host EXCEPT ![h] = r] /\ agent' \in {h, NoHost}
          /\ UNCHANGED <<stored, lastRun, beat, queued, submit, sweep, caught, signals>>
          BY <1>7, <2>1 DEF Register, AgentKeeps
    <2>3. r \in Row /\ r.status # "VERIFIED" /\ r.status # "SUSPENDED" /\ ~r.bench
          BY <2>1 DEF Row, HostStatus
    <2>4. /\ host' \in [Hosts -> Row] /\ host'[h] = r
          /\ \A g \in Hosts : g # h => host'[g] = host[g]
          BY <1>1, <2>2, <2>3, RowMoves
    <2>5. FleetTypeOK'
          BY <1>1, <2>2, <2>4 DEF FleetTypeOK, Row
    <2>6. VerifiedIsMeasured'
          BY <1>2, <2>2, <2>3, <2>4 DEF VerifiedIsMeasured
    <2>7. \A g \in sweep' : host'[g].status = "SUSPENDED" => g \in caught'
          BY <1>1, <1>4, <2>2, <2>3, <2>4
    <2>. QED BY <1>3, <2>2, <2>5, <2>6, <2>7 DEF FleetInv
  <1>8. ASSUME NEW w \in FleetWorkers, NEW h \in Hosts, NEW types, SubmitReads(w, h, types)
        PROVE  FleetInv'
    <2>1. PICK s : s = [host |-> h, types |-> types, rerun |-> host[h].status \in Listable,
                        complete |-> stored[h] \cup types = BenchTypes]
          OBVIOUS
    <2>2. /\ submit' = [submit EXCEPT ![w] = s] /\ types \subseteq BenchTypes
          /\ UNCHANGED <<host, stored, lastRun, beat, queued, agent, sweep, caught, signals>>
          BY <1>8, <2>1 DEF SubmitReads, Accepted
    <2>3. s \in Submission /\ s.host = h /\ s.types = types
          BY <2>1, <2>2 DEF Submission
    <2>4. s.complete => stored[h] \cup types = BenchTypes
          BY <2>1, Zenon
    <2>5. /\ submit' \in [FleetWorkers -> Submission] /\ submit'[w] = s
          /\ \A v \in FleetWorkers : v # w => submit'[v] = submit[v]
          BY <1>1, <2>2, <2>3, SubmitMoves
    <2>6. FleetTypeOK'
          BY <1>1, <2>2, <2>5 DEF FleetTypeOK, Row
    <2>7. VerifiedIsMeasured'
          BY <1>2, <2>2 DEF VerifiedIsMeasured
    <2>8. ASSUME NEW v \in FleetWorkers, submit'[v] # Idle
          PROVE  /\ submit'[v].host \in Hosts
                 /\ submit'[v].complete =>
                       stored'[submit'[v].host] \cup submit'[v].types = BenchTypes
          BY <1>3, <2>2, <2>3, <2>4, <2>5, <2>8
    <2>. QED BY <1>4, <2>2, <2>6, <2>7, <2>8 DEF FleetInv
  <1>9. ASSUME NEW w \in FleetWorkers, SubmitCommits(w) PROVE FleetInv'
    <2>1. PICK s, h : s = submit[w] /\ h = s.host
          OBVIOUS
    <2>2. /\ s # Idle /\ s \in Submission /\ h \in Hosts /\ s.types \subseteq BenchTypes
          /\ s.complete => stored[h] \cup s.types = BenchTypes
          BY <1>1, <1>3, <1>9, <2>1 DEF SubmitCommits, Submission
    <2>3. /\ stored' = [stored EXCEPT ![h] = @ \cup s.types]
          /\ lastRun' = [lastRun EXCEPT ![h] = "new"]
          /\ submit' = [submit EXCEPT ![w] = Idle]
          /\ UNCHANGED <<beat, queued, agent, sweep, caught, signals>>
          BY <1>9, <2>1 DEF SubmitCommits
    <2>4. host' = IF s.complete /\ ~s.rerun
                  THEN [host EXCEPT ![h].status = "VERIFIED", ![h].bench = TRUE]
                  ELSE host
          BY <1>9, <2>1 DEF SubmitCommits
    <2>5. /\ stored' \in [Hosts -> SUBSET BenchTypes]
          /\ stored'[h] = stored[h] \cup s.types
          /\ \A g \in Hosts : g # h => stored'[g] = stored[g]
          /\ \A g \in Hosts : stored[g] \subseteq stored'[g]
          BY <1>1, <2>2, <2>3
    <2>6. \A g \in Hosts : stored[g] = BenchTypes => stored'[g] = BenchTypes
          BY <1>1, <2>5
    <2>7. /\ host' \in [Hosts -> Row]
          /\ \A g \in Hosts : g # h => host'[g] = host[g]
          /\ host'[h] = host[h] \/ (stored'[h] = BenchTypes /\ host'[h].status = "VERIFIED")
      <3>1. CASE s.complete /\ ~s.rerun
        <4>1. PICK r : r = [[host[h] EXCEPT !.status = "VERIFIED"] EXCEPT !.bench = TRUE]
              OBVIOUS
        <4>2. host' = [host EXCEPT ![h] = r]
              BY <1>1, <2>4, <3>1, <4>1
        <4>3. r \in Row /\ r.status = "VERIFIED"
          <5>1. host[h] \in Row /\ "VERIFIED" \in HostStatus
                BY <1>1, <2>2 DEF HostStatus
          <5>. QED BY <4>1, <5>1 DEF Row
        <4>4. stored'[h] = BenchTypes
              BY <2>2, <2>5, <3>1
        <4>. QED BY <1>1, <2>2, <4>2, <4>3, <4>4, RowMoves
      <3>2. CASE ~(s.complete /\ ~s.rerun)
            BY <1>1, <2>4, <3>2
      <3>. QED BY <3>1, <3>2
    <2>8. /\ submit' \in [FleetWorkers -> Submission] /\ submit'[w] = Idle
          /\ \A v \in FleetWorkers : v # w => submit'[v] = submit[v]
          BY <1>1, <2>3, SubmitMoves, IdleIsSubmission
    <2>9. FleetTypeOK'
      <3>1. lastRun' \in [Hosts -> Age]
            BY <1>1, <1>5, <2>3
      <3>. QED BY <1>1, <2>3, <2>5, <2>7, <2>8, <3>1 DEF FleetTypeOK, Row
    <2>10. VerifiedIsMeasured'
           BY <1>2, <2>6, <2>7 DEF VerifiedIsMeasured
    <2>11. ASSUME NEW v \in FleetWorkers, submit'[v] # Idle
           PROVE  /\ submit'[v].host \in Hosts
                  /\ submit'[v].complete =>
                        stored'[submit'[v].host] \cup submit'[v].types = BenchTypes
      <3>1. v # w /\ submit'[v] = submit[v]
            BY <2>8, <2>11
      <3>2. submit[v].types \subseteq BenchTypes
            BY <1>1 DEF Submission
      <3>3. submit[v].host \in Hosts
            BY <1>3, <2>11, <3>1
      <3>4. stored'[submit[v].host] \subseteq BenchTypes
            BY <2>5, <3>3
      <3>. QED BY <1>3, <2>5, <2>11, <3>1, <3>2, <3>3, <3>4
    <2>12. \A g \in sweep' : host'[g].status = "SUSPENDED" => g \in caught'
           BY <1>1, <1>4, <2>3, <2>7
    <2>. QED BY <2>9, <2>10, <2>11, <2>12 DEF FleetInv
  <1>10. ASSUME NEW w \in FleetWorkers, SubmitFails(w) PROVE FleetInv'
    <2>1. /\ submit' = [submit EXCEPT ![w] = Idle]
          /\ UNCHANGED <<host, stored, lastRun, beat, queued, agent, sweep, caught, signals>>
          BY <1>10 DEF SubmitFails
    <2>2. /\ submit' \in [FleetWorkers -> Submission] /\ submit'[w] = Idle
          /\ \A v \in FleetWorkers : v # w => submit'[v] = submit[v]
          BY <1>1, <2>1, SubmitMoves, IdleIsSubmission
    <2>3. FleetTypeOK'
          BY <1>1, <2>1, <2>2 DEF FleetTypeOK, Row
    <2>4. VerifiedIsMeasured'
          BY <1>2, <2>1 DEF VerifiedIsMeasured
    <2>5. ASSUME NEW v \in FleetWorkers, submit'[v] # Idle
          PROVE  /\ submit'[v].host \in Hosts
                 /\ submit'[v].complete =>
                       stored'[submit'[v].host] \cup submit'[v].types = BenchTypes
          BY <1>3, <2>1, <2>2, <2>5
    <2>. QED BY <1>4, <2>1, <2>3, <2>4, <2>5 DEF FleetInv
  <1>11. ASSUME Heartbeat PROVE FleetInv'
    <2>1. /\ agent \in Hosts /\ queued[agent] < MaxBeats
          /\ queued' = [queued EXCEPT ![agent] = @ + 1]
          /\ UNCHANGED <<host, stored, lastRun, beat, agent, submit, sweep, caught, signals>>
          BY <1>1, <1>11 DEF Heartbeat, AgentBeats
    <2>2. queued' \in [Hosts -> 0..MaxBeats]
          BY <1>1, <1>6, <2>1
    <2>3. FleetTypeOK'
          BY <1>1, <2>1, <2>2 DEF FleetTypeOK, Row
    <2>. QED BY <1>2, <1>3, <1>4, <2>1, <2>3 DEF FleetInv, VerifiedIsMeasured
  <1>12. ASSUME SweepReads PROVE FleetInv'
    <2>1. /\ sweep = {} /\ \A h \in sweep' : h \in Hosts /\ host[h].status # "SUSPENDED"
          /\ UNCHANGED <<host, stored, lastRun, beat, queued, agent, submit, caught, signals>>
          BY <1>12 DEF SweepReads
    <2>2. caught' \subseteq sweep' /\ sweep' \subseteq Hosts
          BY <1>1, <2>1
    <2>3. FleetTypeOK'
          BY <1>1, <2>1, <2>2 DEF FleetTypeOK, Row
    <2>. QED BY <1>2, <1>3, <1>4, <2>1, <2>3 DEF FleetInv, VerifiedIsMeasured
  <1>13. ASSUME SweepCommits PROVE FleetInv'
    <2>1. /\ host' = [h \in Hosts |-> IF h \in sweep
                                      THEN [host[h] EXCEPT !.status = "PENDING_VERIFICATION"]
                                      ELSE host[h]]
          /\ sweep' = {} /\ caught' = {}
          /\ UNCHANGED <<stored, lastRun, beat, queued, agent, submit, signals>>
          BY <1>13 DEF SweepCommits
    <2>2. ASSUME NEW h \in Hosts
          PROVE  /\ host'[h] \in Row
                 /\ host'[h] = host[h]
                    \/ (host'[h].bench = host[h].bench
                        /\ host'[h].status = "PENDING_VERIFICATION")
      <3>1. host[h] \in Row /\ "PENDING_VERIFICATION" \in HostStatus
            BY <1>1 DEF HostStatus
      <3>2. host'[h] = host[h] \/ host'[h] = [host[h] EXCEPT !.status = "PENDING_VERIFICATION"]
            BY <2>1
      <3>3. /\ [host[h] EXCEPT !.status = "PENDING_VERIFICATION"] \in Row
            /\ [host[h] EXCEPT !.status = "PENDING_VERIFICATION"].status = "PENDING_VERIFICATION"
            /\ [host[h] EXCEPT !.status = "PENDING_VERIFICATION"].bench = host[h].bench
            BY <3>1, RowStatus
      <3>. QED BY <3>1, <3>2, <3>3, Zenon
    <2>3. host' \in [Hosts -> Row]
          BY <2>1, <2>2
    <2>4. FleetTypeOK'
          BY <1>1, <2>1, <2>3 DEF FleetTypeOK, Row
    <2>5. VerifiedIsMeasured'
          BY <1>2, <2>1, <2>2 DEF VerifiedIsMeasured
    <2>. QED BY <1>3, <2>1, <2>4, <2>5 DEF FleetInv
  <1>14. ASSUME SweepDies PROVE FleetInv'
    <2>1. /\ sweep' = {} /\ caught' = {}
          /\ UNCHANGED <<host, stored, lastRun, beat, queued, agent, submit, signals>>
          BY <1>14 DEF SweepDies
    <2>2. FleetTypeOK'
          BY <1>1, <2>1 DEF FleetTypeOK, Row
    <2>. QED BY <1>2, <1>3, <2>1, <2>2 DEF FleetInv, VerifiedIsMeasured
  <1>15. ASSUME NEW h \in Hosts, ProcessBeat(h) PROVE FleetInv'
    <2>1. /\ queued[h] > 0 /\ beat' = [beat EXCEPT ![h] = "new"]
          /\ queued' \in {queued, [queued EXCEPT ![h] = @ - 1]}
          /\ UNCHANGED <<host, stored, lastRun, agent, submit, sweep, caught, signals>>
          BY <1>15 DEF ProcessBeat
    <2>2. beat' \in [Hosts -> Age]
          BY <1>1, <1>5, <2>1
    <2>3. queued' \in [Hosts -> 0..MaxBeats]
      <3>1. [queued EXCEPT ![h] = @ - 1] \in [Hosts -> 0..MaxBeats]
            BY <1>1, <1>6, <2>1
      <3>. QED BY <1>1, <2>1, <3>1
    <2>4. FleetTypeOK'
          BY <1>1, <2>1, <2>2, <2>3 DEF FleetTypeOK, Row
    <2>. QED BY <1>2, <1>3, <1>4, <2>1, <2>4 DEF FleetInv, VerifiedIsMeasured
  <1>21. ASSUME NEW h \in Hosts, BeatIsLost(h) PROVE FleetInv'
    <2>1. /\ queued[h] > 0 /\ queued' = [queued EXCEPT ![h] = @ - 1]
          /\ UNCHANGED <<host, stored, lastRun, beat, agent, submit, sweep, caught, signals>>
          BY <1>21 DEF BeatIsLost
    <2>2. queued' \in [Hosts -> 0..MaxBeats]
          BY <1>1, <1>6, <2>1
    <2>3. FleetTypeOK'
          BY <1>1, <2>1, <2>2 DEF FleetTypeOK, Row
    <2>. QED BY <1>2, <1>3, <1>4, <2>1, <2>3 DEF FleetInv, VerifiedIsMeasured
  <1>16. ASSUME NEW h \in Hosts, TriggerRebenchmark(h) PROVE FleetInv'
    <2>1. /\ signals' = signals \cup {h}
          /\ UNCHANGED <<host, stored, lastRun, beat, queued, agent, submit, sweep, caught>>
          BY <1>16 DEF TriggerRebenchmark
    <2>2. FleetTypeOK'
          BY <1>1, <2>1 DEF FleetTypeOK, Row
    <2>. QED BY <1>2, <1>3, <1>4, <2>1, <2>2 DEF FleetInv, VerifiedIsMeasured
  <1>17. ASSUME NEW h \in Hosts, KillHost(h) PROVE FleetInv'
    <2>1. /\ host' = [host EXCEPT ![h].status = "SUSPENDED"]
          /\ caught' = caught \cup ({h} \cap sweep)
          /\ UNCHANGED <<stored, lastRun, beat, queued, agent, submit, sweep, signals>>
          BY <1>17 DEF KillHost
    <2>2. PICK r : r = [host[h] EXCEPT !.status = "SUSPENDED"]
          OBVIOUS
    <2>3. r \in Row /\ r.status = "SUSPENDED" /\ r.bench = host[h].bench
      <3>1. host[h] \in Row /\ "SUSPENDED" \in HostStatus
            BY <1>1 DEF HostStatus
      <3>. QED BY <2>2, <3>1, RowStatus
    <2>4. /\ host' \in [Hosts -> Row] /\ host'[h] = r
          /\ \A g \in Hosts : g # h => host'[g] = host[g]
      <3>1. host' = [host EXCEPT ![h] = r]
            BY <1>1, <2>1, <2>2
      <3>. QED BY <1>1, <2>3, <3>1, RowMoves
    <2>5. FleetTypeOK'
          BY <1>1, <2>1, <2>4 DEF FleetTypeOK, Row
    <2>6. VerifiedIsMeasured'
          BY <1>2, <2>1, <2>3, <2>4 DEF VerifiedIsMeasured
    <2>7. \A g \in sweep' : host'[g].status = "SUSPENDED" => g \in caught'
          BY <1>1, <1>4, <2>1, <2>4
    <2>. QED BY <1>3, <2>1, <2>5, <2>6, <2>7 DEF FleetInv
  <1>18. ASSUME NEW h \in Hosts, Grows(h) PROVE FleetInv'
    <2>1. /\ beat' \in {beat, [beat EXCEPT ![h] = "old"]}
          /\ lastRun' \in {lastRun, [lastRun EXCEPT ![h] = "old"]}
          /\ UNCHANGED <<host, stored, queued, agent, submit, sweep, caught, signals>>
          BY <1>18 DEF Grows
    <2>2. beat' \in [Hosts -> Age] /\ lastRun' \in [Hosts -> Age]
          BY <1>1, <1>5, <2>1
    <2>3. FleetTypeOK'
          BY <1>1, <2>1, <2>2 DEF FleetTypeOK, Row
    <2>. QED BY <1>2, <1>3, <1>4, <2>1, <2>3 DEF FleetInv, VerifiedIsMeasured
  <1>19. CASE UNCHANGED fleetVars
    <2>1. UNCHANGED <<host, stored, lastRun, beat, queued, agent, submit, sweep, caught, signals>>
          BY <1>19 DEF fleetVars
    <2>2. FleetTypeOK'
          BY <1>1, <2>1 DEF FleetTypeOK, Row
    <2>. QED BY <1>2, <1>3, <1>4, <2>1, <2>2 DEF FleetInv, VerifiedIsMeasured
  <1>20. \A s \in Specs : SpecPasses(s) \in BOOLEAN
         BY DEF SpecPasses
  <1>. QED BY <1>7, <1>8, <1>9, <1>10, <1>11, <1>12, <1>13, <1>14, <1>15, <1>16, <1>17,
              <1>18, <1>19, <1>20, <1>21 DEF FleetNext

\* Only a sweep's commit takes a suspended host back to pending.
LEMMA SweepSpares ==
    ASSUME FleetInv, [FleetNext]_fleetVars, NEW h \in Hosts,
           host[h].status = "SUSPENDED", host'[h].status = "PENDING_VERIFICATION"
    PROVE  h \in caught
  <1>1. /\ host \in [Hosts -> Row]
        /\ \A g \in sweep : host[g].status = "SUSPENDED" => g \in caught
        BY DEF FleetInv, FleetTypeOK, Row
  <1>2. SUFFICES h \in sweep
        BY <1>1
  <1>3. host' # host
        OBVIOUS
  <1>4. ASSUME NEW g \in Hosts, NEW passed, Register(g, passed) PROVE h \in sweep
    <2>1. PICK r : r = [status |-> IF passed THEN "BENCHMARKING" ELSE "FLAGGED",
                        spec |-> passed, bench |-> FALSE]
          OBVIOUS
    <2>2. host' = [host EXCEPT ![g] = r] /\ r.status # "PENDING_VERIFICATION"
          BY <1>4, <2>1 DEF Register
    <2>. QED BY <1>1, <2>2
  <1>5. ASSUME NEW w \in FleetWorkers, SubmitCommits(w) PROVE h \in sweep
    <2>1. PICK g : g = submit[w].host
          OBVIOUS
    <2>2. host' = [host EXCEPT ![g].status = "VERIFIED", ![g].bench = TRUE]
          BY <1>3, <1>5, <2>1 DEF SubmitCommits
    <2>3. host'[h] = host[h] \/ host'[h].status = "VERIFIED"
          BY <1>1, <2>2 DEF Row
    <2>. QED BY <2>3
  <1>6. ASSUME SweepCommits PROVE h \in sweep
        BY <1>1, <1>6 DEF SweepCommits
  <1>7. ASSUME NEW g \in Hosts, KillHost(g) PROVE h \in sweep
    <2>1. host' = [host EXCEPT ![g].status = "SUSPENDED"]
          BY <1>7 DEF KillHost
    <2>2. host'[h] = host[h] \/ host'[h].status = "SUSPENDED"
          BY <1>1, <2>1 DEF Row
    <2>. QED BY <2>2
  <1>. QED BY <1>3, <1>4, <1>5, <1>6, <1>7
           DEF FleetNext, fleetVars, SubmitReads, SubmitFails, Heartbeat, SweepReads,
               SweepDies, ProcessBeat, BeatIsLost, TriggerRebenchmark, Grows

FleetSafety == FleetTypeOK /\ VerifiedIsMeasured

LEMMA FleetIsSafe ==
    FleetInit /\ [][FleetNext]_fleetVars => []FleetSafety /\ SweepSparesSuspended
  <1>1. FleetInv => FleetSafety
        BY DEF FleetInv, FleetSafety
  <1>2. FleetInv /\ [FleetNext]_fleetVars =>
           [\A h \in Hosts :
              /\ host[h].status = "SUSPENDED" /\ host'[h].status = "PENDING_VERIFICATION"
              => h \in caught]_fleetVars
        BY SweepSpares
  <1>. QED BY <1>1, <1>2, FleetInitInv, FleetStep, PTL DEF SweepSparesSuspended

-----------------------------------------------------------------------------
(* MarketIndex *)

\* What a request goes on with is a row, but for one that is to create it.
Backed(r) ==
    r.op # "none" => /\ r.listing \in Listings
                     /\ r.op # "create" => row[r.listing] # "none"

MarketInv ==
    /\ MarketTypeOK /\ IndexNamesRows
    /\ \A w \in MarketWorkers : Backed(request[w])
    /\ \A y \in Syncs : syncing[y] # NotRunning => \A l \in syncing[y] : row[l] # "none"

Statuses == ListingStatus \cup {"none"}

LEMMA NoRequestIs ==
    /\ NoRequest \in Request /\ NoRequest.op = "none"
  BY DEF NoRequest, Request

LEMMA MarkIs ==
    ASSUME NEW l \in Listings, NEW on \in BOOLEAN
    PROVE  Mark(l, on) \in Request /\ Mark(l, on).op = "mark" /\ Mark(l, on).listing = l
  BY DEF Mark, NoRequest, Request

LEMMA AskIs ==
    ASSUME NEW l \in Listings, NEW p \in {"create", "update", "delist"},
           NEW s \in ListingStatus \cup {NoChange}
    PROVE  /\ [NoRequest EXCEPT !.op = p, !.listing = l, !.set = s] \in Request
           /\ [NoRequest EXCEPT !.op = p, !.listing = l, !.set = s].op = p
           /\ [NoRequest EXCEPT !.op = p, !.listing = l, !.set = s].listing = l
  BY DEF NoRequest, Request

LEMMA CreateIs ==
    ASSUME NEW l \in Listings
    PROVE  /\ [NoRequest EXCEPT !.op = "create", !.listing = l] \in Request
           /\ [NoRequest EXCEPT !.op = "create", !.listing = l].op = "create"
           /\ [NoRequest EXCEPT !.op = "create", !.listing = l].listing = l
  BY DEF NoRequest, Request

LEMMA MarketInitInv == MarketInit => MarketInv
  <1>. SUFFICES ASSUME MarketInit PROVE MarketInv
       OBVIOUS
  <1>1. /\ request \in [MarketWorkers -> Request]
        /\ \A w \in MarketWorkers : Backed(request[w])
        BY NoRequestIs DEF MarketInit, Backed
  <1>2. finding \in [listing: Listings \cup {NoListing}, status: ListingStatus]
        BY DEF MarketInit, NoFinding, ListingStatus
  <1>3. MarketTypeOK
        BY <1>1, <1>2 DEF MarketInit, MarketTypeOK
  <1>4. IndexNamesRows /\ \A y \in Syncs : syncing[y] = NotRunning
        BY DEF MarketInit, IndexNamesRows
  <1>. QED BY <1>1, <1>3, <1>4 DEF MarketInv

\* A step that takes no row away and moves one request from rows to rows.
LEMMA MarketMoves ==
    ASSUME MarketInv, NEW w \in MarketWorkers, NEW r \in Request, Set(w, r),
           row' \in [Listings -> Statuses],
           \A l \in Listings : row[l] # "none" => row'[l] # "none",
           r.op # "none" => /\ r.listing \in Listings
                            /\ r.op # "create" => row'[r.listing] # "none",
           index' \subseteq Listings, \A l \in index' : row'[l] # "none",
           UNCHANGED <<hostOk, syncing, found, finding>>
    PROVE  MarketInv'
  <1>1. /\ request' = [request EXCEPT ![w] = r] /\ request \in [MarketWorkers -> Request]
        /\ \A v \in MarketWorkers : Backed(request[v])
        /\ syncing \in [Syncs -> (SUBSET Listings) \cup {NotRunning}]
        /\ \A y \in Syncs : syncing[y] # NotRunning => \A l \in syncing[y] : row[l] # "none"
        BY DEF Set, MarketInv, MarketTypeOK
  <1>2. request' \in [MarketWorkers -> Request]
        BY <1>1
  <1>3. MarketTypeOK'
        BY <1>2 DEF MarketInv, MarketTypeOK, Statuses
  <1>4. IndexNamesRows'
        BY DEF IndexNamesRows
  <1>5. ASSUME NEW v \in MarketWorkers PROVE Backed(request[v])'
    <2>1. CASE v = w
          BY <1>1, <2>1 DEF Backed
    <2>2. CASE v # w
          BY <1>1, <2>2 DEF Backed
    <2>. QED BY <2>1, <2>2
  <1>6. \A y \in Syncs : syncing'[y] # NotRunning => \A l \in syncing'[y] : row'[l] # "none"
    <2>1. \A y \in Syncs : syncing[y] # NotRunning => \A l \in syncing[y] : l \in Listings
          BY <1>1
    <2>. QED BY <1>1, <2>1
  <1>. QED BY <1>3, <1>4, <1>5, <1>6 DEF MarketInv

\* A step that leaves the requests alone.
LEMMA MarketRests ==
    ASSUME MarketInv, request' = request,
           hostOk' \in BOOLEAN, row' \in [Listings -> Statuses],
           \A l \in Listings : row[l] # "none" => row'[l] # "none",
           index' \subseteq Listings, \A l \in index' : row'[l] # "none",
           syncing' \in [Syncs -> (SUBSET Listings) \cup {NotRunning}],
           \A y \in Syncs : syncing'[y] # NotRunning => \A l \in syncing'[y] : row'[l] # "none",
           found' \in [Listings -> Statuses],
           finding' \in [listing: Listings \cup {NoListing}, status: ListingStatus]
    PROVE  MarketInv'
  <1>1. /\ request \in [MarketWorkers -> Request]
        /\ \A v \in MarketWorkers : Backed(request[v])
        BY DEF MarketInv, MarketTypeOK
  <1>2. MarketTypeOK'
        BY <1>1 DEF MarketTypeOK, Statuses
  <1>3. IndexNamesRows'
        BY DEF IndexNamesRows
  <1>4. ASSUME NEW v \in MarketWorkers PROVE Backed(request[v])'
        BY <1>1 DEF Backed
  <1>. QED BY <1>2, <1>3, <1>4 DEF MarketInv

LEMMA MarketStep == ASSUME MarketInv, [MarketNext]_marketVars PROVE MarketInv'
  <1>1. /\ hostOk \in BOOLEAN /\ row \in [Listings -> Statuses]
        /\ index \subseteq Listings /\ request \in [MarketWorkers -> Request]
        /\ syncing \in [Syncs -> (SUBSET Listings) \cup {NotRunning}]
        /\ found \in [Listings -> Statuses]
        /\ finding \in [listing: Listings \cup {NoListing}, status: ListingStatus]
        /\ \A l \in index : row[l] # "none"
        /\ \A w \in MarketWorkers : Backed(request[w])
        /\ \A y \in Syncs : syncing[y] # NotRunning => \A l \in syncing[y] : row[l] # "none"
        BY DEF MarketInv, MarketTypeOK, IndexNamesRows, Statuses
  <1>2. NoListing \notin Listings
        BY MarketAssumption
  <1>3. ASSUME NEW w \in MarketWorkers, NEW l \in Listings, CreateReads(w, l)
        PROVE  MarketInv'
    <2>1. PICK r : r = [NoRequest EXCEPT !.op = "create", !.listing = l]
          OBVIOUS
    <2>2. Set(w, r) /\ UNCHANGED <<hostOk, row, index, syncing, found, finding>>
          BY <1>3, <2>1 DEF CreateReads
    <2>3. r \in Request /\ r.op = "create" /\ r.listing = l
          BY <2>1, CreateIs
    <2>. QED BY <1>1, <2>2, <2>3, MarketMoves
  <1>4. ASSUME NEW w \in MarketWorkers, CreateCommits(w) PROVE MarketInv'
    <2>1. PICK l : l = request[w].listing
          OBVIOUS
    <2>2. /\ row' = [row EXCEPT ![l] = "active"] /\ Set(w, Mark(l, TRUE))
          /\ UNCHANGED <<hostOk, index, syncing, found, finding>> /\ l \in Listings
          BY <1>1, <1>4, <2>1 DEF CreateCommits, Backed
    <2>3. row' \in [Listings -> Statuses] /\ row'[l] # "none"
          /\ \A k \in Listings : row[k] # "none" => row'[k] # "none"
          BY <1>1, <2>2 DEF Statuses, ListingStatus
    <2>4. /\ Mark(l, TRUE) \in Request /\ Mark(l, TRUE).op = "mark"
          /\ Mark(l, TRUE).listing = l
          BY <2>2, MarkIs
    <2>. QED BY <1>1, <2>2, <2>3, <2>4, MarketMoves
  <1>5. ASSUME NEW w \in MarketWorkers, NEW l \in Listings,
               NEW s \in ListingStatus \cup {NoChange}, UpdateReads(w, l, s)
        PROVE  MarketInv'
    <2>1. PICK t : t = IF s = row[l] THEN NoChange ELSE s
          OBVIOUS
    <2>2. PICK r : r = [NoRequest EXCEPT !.op = "update", !.listing = l, !.set = t]
          OBVIOUS
    <2>3. /\ Set(w, r) /\ UNCHANGED <<hostOk, row, index, syncing, found, finding>>
          /\ row[l] # "none"
          BY <1>5, <2>1, <2>2 DEF UpdateReads
    <2>4. t \in ListingStatus \cup {NoChange}
          BY <2>1
    <2>5. r \in Request /\ r.op = "update" /\ r.listing = l
          BY <2>2, <2>4, AskIs
    <2>. QED BY <1>1, <2>3, <2>5, MarketMoves
  <1>6. ASSUME NEW w \in MarketWorkers, UpdateCommits(w) PROVE MarketInv'
    <2>1. PICK q, l, on : q = request[w] /\ l = q.listing /\ on = (row'[l] = "active")
          OBVIOUS
    <2>2. /\ row' = IF q.set = NoChange THEN row ELSE [row EXCEPT ![l] = q.set]
          /\ Set(w, Mark(l, on)) /\ q.op = "update"
          /\ UNCHANGED <<hostOk, index, syncing, found, finding>>
          BY <1>6, <2>1 DEF UpdateCommits
    <2>3. /\ q \in Request /\ l \in Listings /\ row[l] # "none"
          /\ q.set \in ListingStatus \cup {NoChange}
          BY <1>1, <2>1, <2>2 DEF Backed, Request
    <2>4. /\ row' \in [Listings -> Statuses]
          /\ \A k \in Listings : row[k] # "none" => row'[k] # "none"
          BY <1>1, <2>2, <2>3 DEF Statuses, ListingStatus
    <2>5. /\ Mark(l, on) \in Request /\ Mark(l, on).op = "mark" /\ Mark(l, on).listing = l
      <3>1. on \in BOOLEAN
            BY <2>1
      <3>. QED BY <2>3, <3>1, MarkIs
    <2>. QED BY <1>1, <2>2, <2>3, <2>4, <2>5, MarketMoves
  <1>7. ASSUME NEW w \in MarketWorkers, NEW l \in Listings, DelistReads(w, l)
        PROVE  MarketInv'
    <2>1. PICK t : t = IF row[l] = "delisted" THEN NoChange ELSE "delisted"
          OBVIOUS
    <2>2. PICK r : r = [NoRequest EXCEPT !.op = "delist", !.listing = l, !.set = t]
          OBVIOUS
    <2>3. /\ Set(w, r) /\ UNCHANGED <<hostOk, row, index, syncing, found, finding>>
          /\ row[l] # "none"
          BY <1>7, <2>1, <2>2 DEF DelistReads
    <2>4. t \in ListingStatus \cup {NoChange}
          BY <2>1 DEF ListingStatus
    <2>5. r \in Request /\ r.op = "delist" /\ r.listing = l
          BY <2>2, <2>4, AskIs
    <2>. QED BY <1>1, <2>3, <2>5, MarketMoves
  <1>8. ASSUME NEW w \in MarketWorkers, DelistCommits(w) PROVE MarketInv'
    <2>1. PICK q, l : q = request[w] /\ l = q.listing
          OBVIOUS
    <2>2. /\ row' = IF q.set = NoChange THEN row ELSE [row EXCEPT ![l] = "delisted"]
          /\ Set(w, Mark(l, FALSE)) /\ q.op = "delist"
          /\ UNCHANGED <<hostOk, index, syncing, found, finding>>
          BY <1>8, <2>1 DEF DelistCommits
    <2>3. /\ q \in Request /\ l \in Listings /\ row[l] # "none"
          BY <1>1, <2>1, <2>2 DEF Backed, Request
    <2>4. /\ row' \in [Listings -> Statuses]
          /\ \A k \in Listings : row[k] # "none" => row'[k] # "none"
          BY <1>1, <2>2, <2>3 DEF Statuses, ListingStatus
    <2>5. /\ Mark(l, FALSE) \in Request /\ Mark(l, FALSE).op = "mark"
          /\ Mark(l, FALSE).listing = l
          BY <2>3, MarkIs
    <2>. QED BY <1>1, <2>2, <2>3, <2>4, <2>5, MarketMoves
  <1>9. ASSUME NEW w \in MarketWorkers, MarkIndex(w) PROVE MarketInv'
    <2>1. PICK q : q = request[w]
          OBVIOUS
    <2>2. /\ q.op = "mark" /\ Set(w, NoRequest)
          /\ index' = IF q.on THEN index \cup {q.listing} ELSE index \ {q.listing}
          /\ UNCHANGED <<hostOk, row, syncing, found, finding>>
          BY <1>9, <2>1 DEF MarkIndex
    <2>3. q.listing \in Listings /\ row[q.listing] # "none"
          BY <1>1, <2>1, <2>2 DEF Backed
    <2>4. index' \subseteq index \cup {q.listing}
          BY <2>2
    <2>5. /\ index' \subseteq Listings /\ \A l \in index' : row'[l] # "none"
          BY <1>1, <2>2, <2>3, <2>4
    <2>. QED BY <1>1, <2>2, <2>5, NoRequestIs, MarketMoves
  <1>10. ASSUME NEW w \in MarketWorkers, RequestFails(w) PROVE MarketInv'
    <2>1. /\ Set(w, NoRequest) /\ UNCHANGED <<hostOk, row, index, syncing, found, finding>>
          BY <1>10 DEF RequestFails
    <2>. QED BY <1>1, <2>1, NoRequestIs, MarketMoves
  <1>11. ASSUME NEW y \in Syncs, SyncReads(y) PROVE MarketInv'
    <2>1. PICK active \in SUBSET Listings : active = {l \in Listings : row[l] = "active"}
          OBVIOUS
    <2>2. /\ syncing' = [syncing EXCEPT ![y] = active]
          /\ UNCHANGED <<hostOk, row, index, request, found, finding>>
          BY <1>11, <2>1 DEF SyncReads
    <2>3. /\ syncing' \in [Syncs -> (SUBSET Listings) \cup {NotRunning}]
          /\ \A z \in Syncs : syncing'[z] = IF z = y THEN active ELSE syncing[z]
          BY <1>1, <2>2
    <2>4. \A z \in Syncs : syncing'[z] # NotRunning => \A l \in syncing'[z] : row'[l] # "none"
          BY <1>1, <2>1, <2>2, <2>3
    <2>. QED BY <1>1, <2>2, <2>3, <2>4, MarketRests
  <1>12. ASSUME NEW y \in Syncs, SyncWrites(y) \/ SyncFails(y) PROVE MarketInv'
    <2>1. /\ syncing[y] # NotRunning /\ index' \in {index, syncing[y]}
          /\ syncing' = [syncing EXCEPT ![y] = NotRunning]
          /\ UNCHANGED <<hostOk, row, request, found, finding>>
          BY <1>12 DEF SyncWrites, SyncFails
    <2>2. /\ syncing' \in [Syncs -> (SUBSET Listings) \cup {NotRunning}]
          /\ \A z \in Syncs : syncing'[z] \in {syncing[z], NotRunning}
          BY <1>1, <2>1
    <2>3. \A z \in Syncs : syncing'[z] # NotRunning => \A l \in syncing'[z] : row'[l] # "none"
          BY <1>1, <2>1, <2>2
    <2>4. index' \subseteq Listings /\ \A l \in index' : row'[l] # "none"
          BY <1>1, <2>1
    <2>. QED BY <1>1, <2>1, <2>2, <2>3, <2>4, MarketRests
  <1>13. ASSUME WatcherPauses PROVE MarketInv'
    <2>1. /\ row' = [l \in Listings |-> IF row[l] = "active" THEN "paused" ELSE row[l]]
          /\ UNCHANGED <<hostOk, index, request, syncing, found, finding>>
          BY <1>13 DEF WatcherPauses
    <2>2. /\ row' \in [Listings -> Statuses]
          /\ \A k \in Listings : row[k] # "none" => row'[k] # "none"
          BY <1>1, <2>1 DEF Statuses, ListingStatus
    <2>3. /\ \A l \in index' : row'[l] # "none"
          /\ \A y \in Syncs : syncing'[y] # NotRunning => \A l \in syncing'[y] : row'[l] # "none"
      <3>1. \A y \in Syncs : syncing[y] # NotRunning => \A l \in syncing[y] : l \in Listings
            BY <1>1
      <3>. QED BY <1>1, <2>1, <2>2, <3>1
    <2>. QED BY <1>1, <2>1, <2>2, <2>3, MarketRests
  <1>14. ASSUME HostChanges PROVE MarketInv'
    <2>1. hostOk' \in BOOLEAN /\ UNCHANGED <<row, index, request, syncing, found, finding>>
          BY <1>1, <1>14 DEF HostChanges
    <2>. QED BY <1>1, <2>1, MarketRests
  <1>15. ASSUME NEW l \in Listings, FindReads(l) PROVE MarketInv'
    <2>1. /\ finding' = [listing |-> l, status |-> row[l]] /\ row[l] # "none"
          /\ UNCHANGED <<hostOk, row, index, request, syncing, found>>
          BY <1>15 DEF FindReads
    <2>2. row[l] \in ListingStatus
          BY <1>1, <2>1 DEF Statuses
    <2>3. finding' \in [listing: Listings \cup {NoListing}, status: ListingStatus]
          BY <2>1, <2>2
    <2>. QED BY <1>1, <2>1, <2>3, MarketRests
  <1>16. ASSUME FindWrites PROVE MarketInv'
    <2>1. /\ finding' = NoFinding
          /\ found' = [found EXCEPT ![finding.listing] = finding.status]
          /\ UNCHANGED <<hostOk, row, index, request, syncing>>
          BY <1>16 DEF FindWrites
    <2>2. found' \in [Listings -> Statuses]
      <3>1. finding.status \in Statuses
            BY <1>1 DEF Statuses
      <3>. QED BY <1>1, <2>1, <3>1
    <2>3. finding' \in [listing: Listings \cup {NoListing}, status: ListingStatus]
          BY <2>1 DEF NoFinding, ListingStatus
    <2>. QED BY <1>1, <2>1, <2>2, <2>3, MarketRests
  <1>17. CASE UNCHANGED marketVars
    <2>1. UNCHANGED <<hostOk, row, index, request, syncing, found, finding>>
          BY <1>17 DEF marketVars
    <2>. QED BY <1>1, <2>1, MarketRests
  <1>. QED BY <1>3, <1>4, <1>5, <1>6, <1>7, <1>8, <1>9, <1>10, <1>11, <1>12, <1>13, <1>14,
              <1>15, <1>16, <1>17 DEF MarketNext

LEMMA MarketIsSafe ==
    MarketInit /\ [][MarketNext]_marketVars => [](MarketTypeOK /\ IndexNamesRows)
  <1>1. MarketInv => MarketTypeOK /\ IndexNamesRows
        BY DEF MarketInv
  <1>. QED BY <1>1, MarketInitInv, MarketStep, PTL

-----------------------------------------------------------------------------
(* AgentCommands *)

\* What is on its way, in work or done was sent; what the store holds, or an answer
\* reports as done, has run; and a command outside the excused has run at most once:
\* while it is in work it has not run and the store does not hold it, and once a
\* servicer's has run the store holds it.
SentInv(c) ==
    /\ copies[c] + handlers[c] + runs[c] <= sent[c]
    /\ cmd[c].row = "none" => sent[c] = 0
    /\ cmd[c].way = "http" => handlers[c] = 0 /\ sent[c] <= 1

RanInv(c) ==
    /\ c \in Range(seen) => runs[c] > 0
    /\ answer[c] = "ok" => runs[c] > 0
    /\ cmd[c].row = "acked" => runs[c] > 0

OnceInv(c) ==
    c \notin excused =>
        /\ runs[c] <= 1
        /\ handlers[c] > 0 => handlers[c] = 1 /\ runs[c] = 0
        /\ runs[c] = 1 /\ cmd[c].way = "servicer" => c \in Range(seen)

CommandsInv ==
    /\ CommandsTypeOK
    /\ \A c \in Commands : SentInv(c) /\ RanInv(c) /\ OnceInv(c)

LEMMA CommandsInitInv == CommandsInit => CommandsInv
  <1>. SUFFICES ASSUME CommandsInit PROVE CommandsInv
       OBVIOUS
  <1>1. NoCommand \in Command /\ NoCommand.row = "none" /\ NoCommand.way = "servicer"
        BY DEF NoCommand, Command, CommandType, CommandStatus
  <1>2. MaxKeys \in Nat /\ MaxCopies \in Nat
        BY CommandsAssumption
  <1>3. /\ seen = <<>> /\ seen \in Seq(Commands) /\ Len(seen) = 0 /\ Range(seen) = {}
        BY DEF CommandsInit, Range
  <1>4. /\ cmd = [c \in Commands |-> NoCommand] /\ excused = {}
        /\ copies = [c \in Commands |-> 0] /\ sent = copies /\ handlers = copies /\ runs = copies
        /\ answer = [c \in Commands |-> "none"]
        BY DEF CommandsInit
  <1>5. CommandsTypeOK
        BY <1>1, <1>2, <1>3, <1>4 DEF CommandsTypeOK
  <1>6. ASSUME NEW c \in Commands PROVE SentInv(c) /\ RanInv(c) /\ OnceInv(c)
        BY <1>1, <1>3, <1>4 DEF SentInv, RanInv, OnceInv
  <1>. QED BY <1>5, <1>6 DEF CommandsInv

LEMMA MarkedIs ==
    ASSUME seen \in Seq(Commands), Len(seen) <= MaxKeys, NEW c \in Commands
    PROVE  /\ Marked(c) \in Seq(Commands) /\ Len(Marked(c)) <= MaxKeys
           /\ c \in Range(Marked(c)) /\ Range(Marked(c)) \subseteq Range(seen) \cup {c}
  <1>1. MaxKeys \in Nat /\ MaxKeys >= 1
        BY CommandsAssumption
  <1>2. CASE Contains(seen, c)
        BY <1>2 DEF Marked, Contains, Range
  <1>3. CASE ~Contains(seen, c)
    <2>1. PICK s : s = IF Len(seen) >= MaxKeys THEN Tail(seen) ELSE seen
          OBVIOUS
    <2>2. /\ s \in Seq(Commands) /\ Len(s) < MaxKeys
          /\ \A k \in 1..Len(s) : s[k] \in Range(seen)
      <3>1. CASE Len(seen) >= MaxKeys
        <4>1. /\ s = Tail(seen) /\ seen # <<>>
              BY <1>1, <2>1, <3>1
        <4>2. /\ s \in Seq(Commands) /\ Len(s) = Len(seen) - 1
              /\ \A k \in 1..Len(s) : s[k] = seen[k + 1] /\ k + 1 \in 1..Len(seen)
              BY <4>1
        <4>. QED BY <1>1, <4>2 DEF Range
      <3>2. CASE ~(Len(seen) >= MaxKeys)
            BY <1>1, <2>1, <3>2 DEF Range
      <3>. QED BY <3>1, <3>2
    <2>3. Marked(c) = Append(s, c)
          BY <1>3, <2>1 DEF Marked
    <2>4. /\ Marked(c) \in Seq(Commands) /\ Len(Marked(c)) = Len(s) + 1
          /\ Marked(c)[Len(s) + 1] = c /\ DOMAIN Marked(c) = 1..(Len(s) + 1)
          /\ \A k \in 1..Len(s) : Marked(c)[k] = s[k]
          BY <2>2, <2>3
    <2>5. Len(Marked(c)) <= MaxKeys /\ Len(s) \in Nat
          BY <1>1, <2>2, <2>4
    <2>6. c \in Range(Marked(c))
          BY <2>4, <2>5 DEF Range
    <2>7. ASSUME NEW k \in DOMAIN Marked(c) PROVE Marked(c)[k] \in Range(seen) \cup {c}
      <3>1. k \in 1..Len(s) \/ k = Len(s) + 1
            BY <2>4, <2>5
      <3>. QED BY <2>2, <2>4, <3>1
    <2>8. Range(Marked(c)) \subseteq Range(seen) \cup {c}
          BY <2>7 DEF Range
    <2>. QED BY <2>4, <2>5, <2>6, <2>8
  <1>. QED BY <1>2, <1>3

\* The other commands keep what they have.
OthersRest(c) ==
    \A d \in Commands : d # c =>
        /\ cmd'[d] = cmd[d] /\ copies'[d] = copies[d] /\ sent'[d] = sent[d]
        /\ handlers'[d] = handlers[d] /\ runs'[d] = runs[d] /\ answer'[d] = answer[d]

\* The store loses excused keys only, and gets the command's only.
StoreMoves(c) ==
    /\ Range(seen') \subseteq Range(seen) \cup {c}
    /\ excused \subseteq excused'
    /\ \A d \in Range(seen) : d \in Range(seen') \/ d \in excused'

\* A step that concerns one command, and only the store's excused besides.
LEMMA CommandMoves ==
    ASSUME CommandsInv, NEW c \in Commands, CommandsTypeOK', OthersRest(c), StoreMoves(c),
           SentInv(c)', RanInv(c)', OnceInv(c)'
    PROVE  CommandsInv'
  <1>1. \A d \in Commands : SentInv(d) /\ RanInv(d) /\ OnceInv(d)
        BY DEF CommandsInv
  <1>3. ASSUME NEW d \in Commands, d # c PROVE (SentInv(d) /\ RanInv(d) /\ OnceInv(d))'
    <2>1. /\ cmd'[d] = cmd[d] /\ copies'[d] = copies[d] /\ sent'[d] = sent[d]
          /\ handlers'[d] = handlers[d] /\ runs'[d] = runs[d] /\ answer'[d] = answer[d]
          BY <1>3 DEF OthersRest
    <2>2. SentInv(d)'
          BY <1>1, <2>1 DEF SentInv
    <2>3. RanInv(d)'
          BY <1>1, <1>3, <2>1 DEF RanInv, StoreMoves
    <2>4. OnceInv(d)'
          BY <1>1, <1>3, <2>1 DEF OnceInv, StoreMoves
    <2>. QED BY <2>2, <2>3, <2>4
  <1>. QED BY <1>3 DEF CommandsInv

LEMMA CommandsStep == ASSUME CommandsInv, [CommandsNext]_commandVars PROVE CommandsInv'
  <1>1. /\ cmd \in [Commands -> Command]
        /\ copies \in [Commands -> 0..MaxCopies] /\ sent \in [Commands -> 0..MaxCopies]
        /\ handlers \in [Commands -> 0..MaxCopies] /\ runs \in [Commands -> 0..MaxCopies]
        /\ answer \in [Commands -> {"none", "ok", "failed"}]
        /\ seen \in Seq(Commands) /\ Len(seen) <= MaxKeys /\ excused \subseteq Commands
        /\ \A d \in Commands : SentInv(d) /\ RanInv(d) /\ OnceInv(d)
        BY DEF CommandsInv, CommandsTypeOK
  <1>2. MaxCopies \in Nat /\ MaxCopies >= 1
        BY CommandsAssumption
  <1>3. ASSUME NEW c \in Commands
        PROVE  /\ copies[c] \in 0..MaxCopies /\ sent[c] \in 0..MaxCopies
               /\ handlers[c] \in 0..MaxCopies /\ runs[c] \in 0..MaxCopies
               /\ cmd[c] \in Command /\ answer[c] \in {"none", "ok", "failed"}
               /\ SentInv(c) /\ RanInv(c) /\ OnceInv(c)
        BY <1>1
  <1>5. /\ Range(seen) \subseteq Commands
        BY <1>1 DEF Range
  <1>6. ASSUME NEW c \in Commands, NEW kind \in CommandType, NEW way \in {"servicer", "http"},
               Dispatch(c, kind, way)
        PROVE  CommandsInv'
    <2>1. PICK m : m = [kind |-> kind, way |-> way, row |-> "sent", kept |-> FALSE]
          OBVIOUS
    <2>2. /\ cmd' = [cmd EXCEPT ![c] = m] /\ cmd[c].row = "none"
          /\ copies' = [copies EXCEPT ![c] = 1] /\ sent' = [sent EXCEPT ![c] = 1]
          /\ UNCHANGED <<handlers, answer, seen, runs, excused>>
          BY <1>6, <2>1 DEF Dispatch
    <2>3. m \in Command /\ m.row = "sent" /\ m.way = way
          BY <2>1 DEF Command, CommandStatus
    <2>4. /\ cmd'[c] = m /\ copies'[c] = 1 /\ sent'[c] = 1
          /\ handlers'[c] = handlers[c] /\ runs'[c] = runs[c] /\ answer'[c] = answer[c]
          BY <1>1, <2>2
    <2>5. handlers[c] = 0 /\ runs[c] = 0
          BY <1>3, <2>2 DEF SentInv
    <2>6. SentInv(c)'
          BY <2>3, <2>4, <2>5 DEF SentInv
    <2>7. RanInv(c)'
          BY <1>3, <2>2, <2>3, <2>4, <2>5 DEF RanInv
    <2>8. OnceInv(c)'
          BY <2>2, <2>4, <2>5 DEF OnceInv
    <2>21. OthersRest(c)
          BY <1>1, <1>2, <1>3, <2>2, <2>3, <2>6, <2>7, <2>8 DEF OthersRest
    <2>22. CommandsTypeOK'
          BY <1>1, <1>2, <1>3, <2>2, <2>3, <2>6, <2>7, <2>8, <1>5 DEF CommandsTypeOK
    <2>23. StoreMoves(c)
          BY <1>1, <1>2, <1>3, <2>2, <2>3, <2>6, <2>7, <2>8 DEF StoreMoves
    <2>. QED BY <2>21, <2>22, <2>23, <2>2, <2>3, <2>6, <2>7, <2>8, CommandMoves
  <1>7. ASSUME NEW c \in Commands, AnswerArrives(c) PROVE CommandsInv'
    <2>1. PICK s : s = IF answer[c] = "ok" THEN "acked" ELSE "failed"
          OBVIOUS
    <2>2. PICK m : m = [cmd[c] EXCEPT !.row = s]
          OBVIOUS
    <2>3. /\ cmd' = [cmd EXCEPT ![c] = m]
          /\ UNCHANGED <<copies, sent, handlers, answer, seen, runs, excused>>
          BY <1>1, <1>7, <2>1, <2>2 DEF AnswerArrives
    <2>4. m \in Command /\ m.row = s /\ m.way = cmd[c].way /\ s # "none"
          BY <1>3, <2>1, <2>2 DEF Command, CommandStatus
    <2>5. /\ cmd'[c] = m /\ copies'[c] = copies[c] /\ sent'[c] = sent[c]
          /\ handlers'[c] = handlers[c] /\ runs'[c] = runs[c] /\ answer'[c] = answer[c]
          BY <1>1, <2>3
    <2>6. SentInv(c)' /\ OnceInv(c)'
          BY <1>3, <2>3, <2>4, <2>5 DEF SentInv, OnceInv
    <2>7. RanInv(c)'
          BY <1>3, <2>1, <2>3, <2>4, <2>5 DEF RanInv
    <2>21. OthersRest(c)
          BY <1>1, <1>3, <2>3, <2>4, <2>6, <2>7 DEF OthersRest
    <2>22. CommandsTypeOK'
          BY <1>1, <1>3, <2>3, <2>4, <2>6, <2>7, <1>5 DEF CommandsTypeOK
    <2>23. StoreMoves(c)
          BY <1>1, <1>3, <2>3, <2>4, <2>6, <2>7 DEF StoreMoves
    <2>. QED BY <2>21, <2>22, <2>23, <2>3, <2>4, <2>6, <2>7, CommandMoves
  <1>8. ASSUME NEW c \in Commands, DispatchTimesOut(c) PROVE CommandsInv'
    <2>2. PICK m : m = [cmd[c] EXCEPT !.row = "timed_out"]
          OBVIOUS
    <2>3. /\ cmd' = [cmd EXCEPT ![c] = m]
          /\ UNCHANGED <<copies, sent, handlers, answer, seen, runs, excused>>
          BY <1>1, <1>8, <2>2 DEF DispatchTimesOut
    <2>4. m \in Command /\ m.row = "timed_out" /\ m.way = cmd[c].way
          BY <1>3, <2>2 DEF Command, CommandStatus
    <2>5. /\ cmd'[c] = m /\ copies'[c] = copies[c] /\ sent'[c] = sent[c]
          /\ handlers'[c] = handlers[c] /\ runs'[c] = runs[c] /\ answer'[c] = answer[c]
          BY <1>1, <2>3
    <2>6. SentInv(c)' /\ OnceInv(c)' /\ RanInv(c)'
          BY <1>3, <2>3, <2>4, <2>5 DEF SentInv, OnceInv, RanInv
    <2>21. OthersRest(c)
          BY <1>1, <1>3, <2>3, <2>4, <2>6 DEF OthersRest
    <2>22. CommandsTypeOK'
          BY <1>1, <1>3, <2>3, <2>4, <2>6, <1>5 DEF CommandsTypeOK
    <2>23. StoreMoves(c)
          BY <1>1, <1>3, <2>3, <2>4, <2>6 DEF StoreMoves
    <2>. QED BY <2>21, <2>22, <2>23, <2>3, <2>4, <2>6, CommandMoves
  <1>9. ASSUME NEW c \in Commands, NEW commits \in BOOLEAN, CallerEnds(c, commits)
        PROVE  CommandsInv'
    <2>1. PICK m : m = IF commits THEN [cmd[c] EXCEPT !.kept = TRUE]
                                  ELSE [cmd[c] EXCEPT !.row = "lost"]
          OBVIOUS
    <2>2. /\ cmd' = [cmd EXCEPT ![c] = m] /\ cmd[c].row # "none"
          /\ UNCHANGED <<copies, sent, handlers, answer, seen, runs, excused>>
          BY <1>1, <1>9, <2>1 DEF CallerEnds
    <2>3. m \in Command /\ m.row \in {cmd[c].row, "lost"} /\ m.way = cmd[c].way
          BY <1>3, <2>1 DEF Command, CommandStatus
    <2>4. /\ cmd'[c] = m /\ copies'[c] = copies[c] /\ sent'[c] = sent[c]
          /\ handlers'[c] = handlers[c] /\ runs'[c] = runs[c] /\ answer'[c] = answer[c]
          BY <1>1, <2>2
    <2>5. SentInv(c)' /\ OnceInv(c)' /\ RanInv(c)'
          BY <1>3, <2>2, <2>3, <2>4 DEF SentInv, OnceInv, RanInv
    <2>21. OthersRest(c)
          BY <1>1, <1>3, <2>2, <2>3, <2>5 DEF OthersRest
    <2>22. CommandsTypeOK'
          BY <1>1, <1>3, <2>2, <2>3, <2>5, <1>5 DEF CommandsTypeOK
    <2>23. StoreMoves(c)
          BY <1>1, <1>3, <2>2, <2>3, <2>5 DEF StoreMoves
    <2>. QED BY <2>21, <2>22, <2>23, <2>2, <2>3, <2>5, CommandMoves
  <1>10. ASSUME NEW c \in Commands, Redeliver(c) PROVE CommandsInv'
    <2>1. /\ sent[c] \in 1..(MaxCopies - 1) /\ cmd[c].way = "servicer"
          /\ sent' = [sent EXCEPT ![c] = sent[c] + 1]
          /\ copies' = [copies EXCEPT ![c] = copies[c] + 1]
          /\ UNCHANGED <<cmd, handlers, answer, seen, runs, excused>>
          BY <1>1, <1>10 DEF Redeliver
    <2>2. sent[c] + 1 \in 0..MaxCopies /\ copies[c] + 1 \in 0..MaxCopies
          BY <1>2, <1>3, <2>1 DEF SentInv
    <2>3. /\ cmd'[c] = cmd[c] /\ copies'[c] = copies[c] + 1 /\ sent'[c] = sent[c] + 1
          /\ handlers'[c] = handlers[c] /\ runs'[c] = runs[c] /\ answer'[c] = answer[c]
          BY <1>1, <2>1
    <2>4. SentInv(c)'
          BY <1>3, <2>1, <2>3 DEF SentInv
    <2>5. OnceInv(c)' /\ RanInv(c)'
          BY <1>3, <2>1, <2>3 DEF OnceInv, RanInv
    <2>21. OthersRest(c)
          BY <1>1, <1>3, <2>1, <2>2, <2>4, <2>5 DEF OthersRest
    <2>22. CommandsTypeOK'
          BY <1>1, <1>3, <2>1, <2>2, <2>4, <2>5, <1>5 DEF CommandsTypeOK
    <2>23. StoreMoves(c)
          BY <1>1, <1>3, <2>1, <2>2, <2>4, <2>5 DEF StoreMoves
    <2>. QED BY <2>21, <2>22, <2>23, <2>1, <2>2, <2>4, <2>5, CommandMoves
  <1>11. ASSUME NEW c \in Commands, Receive(c) PROVE CommandsInv'
    <2>1. /\ copies[c] > 0 /\ cmd[c].way = "servicer"
          /\ copies' = [copies EXCEPT ![c] = copies[c] - 1]
          /\ UNCHANGED <<cmd, sent, seen, runs>>
          BY <1>1, <1>11 DEF Receive
    <2>2. copies[c] - 1 \in 0..MaxCopies
          BY <1>2, <1>3, <2>1
    <2>3. Contains(seen, c) <=> c \in Range(seen)
      <3>1. DOMAIN seen = 1..Len(seen)
            BY <1>1
      <3>. QED BY ONLY <3>1, Zenon DEF Contains, Range
    <2>4. CASE Contains(seen, c)
      <3>1. answer' = [answer EXCEPT ![c] = "ok"] /\ UNCHANGED <<handlers, excused>>
            BY <1>11, <2>4 DEF Receive
      <3>2. /\ cmd'[c] = cmd[c] /\ copies'[c] = copies[c] - 1 /\ sent'[c] = sent[c]
            /\ handlers'[c] = handlers[c] /\ runs'[c] = runs[c] /\ answer'[c] = "ok"
            BY <1>1, <2>1, <3>1
      <3>3. SentInv(c)'
            BY <1>3, <2>1, <3>2 DEF SentInv
      <3>4. OnceInv(c)' /\ RanInv(c)'
            BY <1>3, <2>1, <2>3, <2>4, <3>1, <3>2 DEF OnceInv, RanInv
      <3>21. OthersRest(c)
            BY <1>1, <1>3, <2>1, <2>2, <3>1, <3>3, <3>4 DEF OthersRest
      <3>22. CommandsTypeOK'
            BY <1>1, <1>3, <2>1, <2>2, <3>1, <3>3, <3>4, <1>5 DEF CommandsTypeOK
      <3>23. StoreMoves(c)
            BY <1>1, <1>3, <2>1, <2>2, <3>1, <3>3, <3>4 DEF StoreMoves
      <3>. QED BY <3>21, <3>22, <3>23, <2>1, <2>2, <3>1, <3>3, <3>4, CommandMoves
    <2>5. CASE ~Contains(seen, c)
      <3>1. /\ handlers' = [handlers EXCEPT ![c] = handlers[c] + 1] /\ UNCHANGED answer
            /\ excused' = IF handlers[c] > 0 THEN excused \cup {c} ELSE excused
            BY <1>1, <1>11, <2>5 DEF Receive
      <3>2. /\ cmd'[c] = cmd[c] /\ copies'[c] = copies[c] - 1 /\ sent'[c] = sent[c]
            /\ handlers'[c] = handlers[c] + 1 /\ runs'[c] = runs[c] /\ answer'[c] = answer[c]
            BY <1>1, <2>1, <3>1
      <3>3. handlers[c] + 1 \in 0..MaxCopies
            BY <1>2, <1>3, <2>1 DEF SentInv
      <3>4. SentInv(c)'
            BY <1>3, <2>1, <3>2 DEF SentInv
      <3>5. RanInv(c)'
            BY <1>3, <2>1, <3>2 DEF RanInv
      <3>6. OnceInv(c)'
        <4>1. SUFFICES ASSUME c \notin excused'
                       PROVE  runs'[c] = 0 /\ handlers'[c] = 1
              BY <3>2 DEF OnceInv
        <4>2. c \notin excused /\ handlers[c] = 0
              BY <1>3, <3>1, <4>1
        <4>3. runs[c] = 0
              BY <1>3, <2>1, <2>3, <2>5, <4>2 DEF OnceInv
        <4>. QED BY <3>2, <4>2, <4>3
      <3>7. excused \subseteq excused' /\ excused' \subseteq Commands
            BY <1>1, <3>1
      <3>21. OthersRest(c)
            BY <1>1, <1>3, <2>1, <2>2, <3>1, <3>3, <3>4, <3>5, <3>6, <3>7 DEF OthersRest
      <3>22. CommandsTypeOK'
            BY <1>1, <1>3, <2>1, <2>2, <3>1, <3>3, <3>4, <3>5, <3>6, <3>7, <1>5 DEF CommandsTypeOK
      <3>23. StoreMoves(c)
            BY <1>1, <1>3, <2>1, <2>2, <3>1, <3>3, <3>4, <3>5, <3>6, <3>7 DEF StoreMoves
      <3>. QED BY <3>21, <3>22, <3>23, <2>1, <2>2, <3>1, <3>3, <3>4, <3>5, <3>6, <3>7, CommandMoves
    <2>. QED BY <2>4, <2>5
  <1>12. ASSUME NEW c \in Commands, WorkSucceeds(c) PROVE CommandsInv'
    <2>1. /\ handlers[c] > 0
          /\ handlers' = [handlers EXCEPT ![c] = handlers[c] - 1]
          /\ runs' = [runs EXCEPT ![c] = runs[c] + 1]
          /\ seen' = Marked(c) /\ excused' = excused \cup (Range(seen) \ Range(seen'))
          /\ answer' = [answer EXCEPT ![c] = "ok"]
          /\ UNCHANGED <<cmd, copies, sent>>
          BY <1>1, <1>12 DEF WorkSucceeds
    <2>2. handlers[c] - 1 \in 0..MaxCopies /\ runs[c] + 1 \in 0..MaxCopies
          BY <1>2, <1>3, <2>1 DEF SentInv
    <2>3. /\ seen' \in Seq(Commands) /\ Len(seen') <= MaxKeys
          /\ c \in Range(seen') /\ Range(seen') \subseteq Range(seen) \cup {c}
          BY <1>1, <2>1, MarkedIs
    <2>4. /\ cmd'[c] = cmd[c] /\ copies'[c] = copies[c] /\ sent'[c] = sent[c]
          /\ handlers'[c] = handlers[c] - 1 /\ runs'[c] = runs[c] + 1 /\ answer'[c] = "ok"
          BY <1>1, <2>1
    <2>5. SentInv(c)'
          BY <1>3, <2>1, <2>4 DEF SentInv
    <2>6. RanInv(c)'
          BY <1>3, <2>4 DEF RanInv
    <2>7. OnceInv(c)'
      <3>1. SUFFICES ASSUME c \notin excused'
                     PROVE  runs'[c] = 1 /\ handlers'[c] = 0
            BY <2>3, <2>4 DEF OnceInv
      <3>2. c \notin excused
            BY <2>1, <3>1
      <3>3. runs[c] = 0 /\ handlers[c] = 1
            BY <1>3, <2>1, <3>2 DEF OnceInv
      <3>. QED BY <2>4, <3>3
    <2>8. /\ excused \subseteq excused' /\ excused' \subseteq Commands
          /\ \A d \in Range(seen) : d \in Range(seen') \/ d \in excused'
          BY <1>1, <1>5, <2>1
    <2>21. OthersRest(c)
          BY <1>1, <1>3, <2>1, <2>2, <2>3, <2>5, <2>6, <2>7, <2>8 DEF OthersRest
    <2>22. CommandsTypeOK'
          BY <1>1, <1>3, <2>1, <2>2, <2>3, <2>5, <2>6, <2>7, <2>8, <1>5 DEF CommandsTypeOK
    <2>23. StoreMoves(c)
          BY <1>1, <1>3, <2>1, <2>2, <2>3, <2>5, <2>6, <2>7, <2>8 DEF StoreMoves
    <2>. QED BY <2>21, <2>22, <2>23, <2>1, <2>2, <2>3, <2>5, <2>6, <2>7, <2>8, CommandMoves
  <1>13. ASSUME NEW c \in Commands, WorkFails(c) PROVE CommandsInv'
    <2>1. /\ handlers[c] > 0
          /\ handlers' = [handlers EXCEPT ![c] = handlers[c] - 1]
          /\ answer' = [answer EXCEPT ![c] = "failed"]
          /\ UNCHANGED <<cmd, copies, sent, seen, runs, excused>>
          BY <1>1, <1>13 DEF WorkFails
    <2>2. handlers[c] - 1 \in 0..MaxCopies
          BY <1>2, <1>3, <2>1
    <2>3. /\ cmd'[c] = cmd[c] /\ copies'[c] = copies[c] /\ sent'[c] = sent[c]
          /\ handlers'[c] = handlers[c] - 1 /\ runs'[c] = runs[c] /\ answer'[c] = "failed"
          BY <1>1, <2>1
    <2>4. SentInv(c)'
          BY <1>3, <2>1, <2>3 DEF SentInv
    <2>5. OnceInv(c)' /\ RanInv(c)'
          BY <1>3, <2>1, <2>3 DEF OnceInv, RanInv
    <2>21. OthersRest(c)
          BY <1>1, <1>3, <2>1, <2>2, <2>4, <2>5 DEF OthersRest
    <2>22. CommandsTypeOK'
          BY <1>1, <1>3, <2>1, <2>2, <2>4, <2>5, <1>5 DEF CommandsTypeOK
    <2>23. StoreMoves(c)
          BY <1>1, <1>3, <2>1, <2>2, <2>4, <2>5 DEF StoreMoves
    <2>. QED BY <2>21, <2>22, <2>23, <2>1, <2>2, <2>4, <2>5, CommandMoves
  <1>14. ASSUME NEW c \in Commands, NEW works \in BOOLEAN, HttpHandles(c, works)
         PROVE  CommandsInv'
    <2>1. PICK r, a : r = (IF works THEN runs[c] + 1 ELSE runs[c])
                      /\ a = IF works THEN "ok" ELSE "failed"
          OBVIOUS
    <2>2. /\ copies[c] > 0 /\ cmd[c].way = "http"
          /\ copies' = [copies EXCEPT ![c] = copies[c] - 1]
          /\ runs' = [runs EXCEPT ![c] = r] /\ answer' = [answer EXCEPT ![c] = a]
          /\ UNCHANGED <<cmd, sent, handlers, seen, excused>>
          BY <1>1, <1>14, <2>1 DEF HttpHandles
    <2>3. /\ handlers[c] = 0 /\ sent[c] <= 1 /\ runs[c] = 0 /\ copies[c] = 1 /\ sent[c] = 1
          BY <1>3, <2>2 DEF SentInv
    <2>4. r \in 0..1 /\ (a = "ok" => r > 0) /\ a \in {"ok", "failed"} /\ r \in 0..MaxCopies
          BY <1>2, <2>1, <2>3
    <2>5. /\ cmd'[c] = cmd[c] /\ copies'[c] = 0 /\ sent'[c] = 1
          /\ handlers'[c] = 0 /\ runs'[c] = r /\ answer'[c] = a
          BY <1>1, <2>2, <2>3
    <2>6. SentInv(c)'
          BY <1>3, <2>2, <2>3, <2>4, <2>5 DEF SentInv
    <2>7. RanInv(c)'
          BY <1>3, <2>2, <2>3, <2>4, <2>5 DEF RanInv
    <2>8. OnceInv(c)'
          BY <2>2, <2>4, <2>5 DEF OnceInv
    <2>9. copies[c] - 1 \in 0..MaxCopies /\ r \in 0..MaxCopies
          BY <1>2, <2>3, <2>4
    <2>21. OthersRest(c)
          BY <1>1, <1>3, <2>2, <2>4, <2>6, <2>7, <2>8, <2>9 DEF OthersRest
    <2>22. CommandsTypeOK'
          BY <1>1, <1>3, <2>2, <2>4, <2>6, <2>7, <2>8, <2>9, <1>5 DEF CommandsTypeOK
    <2>23. StoreMoves(c)
          BY <1>1, <1>3, <2>2, <2>4, <2>6, <2>7, <2>8, <2>9 DEF StoreMoves
    <2>. QED BY <2>21, <2>22, <2>23, <2>2, <2>4, <2>6, <2>7, <2>8, <2>9, CommandMoves
  <1>15. ASSUME AgentRestarts PROVE CommandsInv'
    <2>1. /\ seen' = <<>> /\ excused' = excused \cup Range(seen)
          /\ handlers' = [c \in Commands |-> 0]
          /\ answer' = [c \in Commands |-> IF handlers[c] > 0 THEN "failed" ELSE answer[c]]
          /\ UNCHANGED <<cmd, copies, sent, runs>>
          BY <1>15 DEF AgentRestarts
    <2>2. seen' \in Seq(Commands) /\ Len(seen') = 0 /\ Range(seen') = {}
          BY <2>1 DEF Range
    <2>3. CommandsTypeOK'
      <3>1. /\ handlers' \in [Commands -> 0..MaxCopies] /\ Len(seen') <= MaxKeys
            BY <1>2, <2>1, <2>2, CommandsAssumption
      <3>2. answer' \in [Commands -> {"none", "ok", "failed"}] /\ excused' \subseteq Commands
            BY <1>1, <1>5, <2>1
      <3>. QED BY <1>1, <2>1, <2>2, <3>1, <3>2 DEF CommandsTypeOK
    <2>4. ASSUME NEW c \in Commands PROVE (SentInv(c) /\ RanInv(c) /\ OnceInv(c))'
      <3>1. handlers'[c] = 0 /\ (answer'[c] = "ok" => answer[c] = "ok")
            BY <2>1
      <3>2. SentInv(c)'
            BY <1>3, <2>1, <3>1 DEF SentInv
      <3>3. RanInv(c)'
            BY <1>3, <2>1, <2>2, <3>1 DEF RanInv
      <3>4. OnceInv(c)'
            BY <1>3, <2>1, <3>1 DEF OnceInv
      <3>. QED BY <3>2, <3>3, <3>4
    <2>. QED BY <2>3, <2>4 DEF CommandsInv
  <1>16. CASE UNCHANGED commandVars
    <2>1. UNCHANGED <<cmd, copies, sent, handlers, answer, seen, runs, excused>>
          BY <1>16 DEF commandVars
    <2>2. CommandsTypeOK'
          BY <1>1, <2>1 DEF CommandsTypeOK
    <2>3. ASSUME NEW c \in Commands PROVE (SentInv(c) /\ RanInv(c) /\ OnceInv(c))'
          BY <1>3, <2>1 DEF SentInv, RanInv, OnceInv
    <2>. QED BY <2>2, <2>3 DEF CommandsInv
  <1>. QED BY <1>6, <1>7, <1>8, <1>9, <1>10, <1>11, <1>12, <1>13, <1>14, <1>15, <1>16
           DEF CommandsNext

LEMMA CommandsAreSafe ==
    CommandsSpec => [](CommandsTypeOK /\ AckedRan /\ RunsOnceUnlessExcused)
  <1>1. CommandsInv => CommandsTypeOK /\ AckedRan /\ RunsOnceUnlessExcused
    <2>. SUFFICES ASSUME CommandsInv
                  PROVE  CommandsTypeOK /\ AckedRan /\ RunsOnceUnlessExcused
         OBVIOUS
    <2>1. CommandsTypeOK /\ AckedRan
          BY DEF CommandsInv, RanInv, AckedRan
    <2>2. ASSUME NEW c \in Commands, runs[c] > 1, c \notin excused PROVE FALSE
      <3>1. runs[c] <= 1 /\ runs[c] \in Int
            BY <2>2 DEF CommandsInv, CommandsTypeOK, OnceInv
      <3>. QED BY <2>2, <3>1
    <2>. QED BY <2>1, <2>2 DEF RunsOnceUnlessExcused
  <1>. QED BY <1>1, CommandsInitInv, CommandsStep, PTL DEF CommandsSpec

-----------------------------------------------------------------------------
(* AgentStorage *)

ProvisionSteps == {"truncate", "format", "open", "mkfs", "save"}

\* While an instance is provided its file is not past the TTL, and it is formatted and
\* open before it is filled; a termination is the last call for its instance.
CallInv ==
    /\ call.guest = NoGuest => call = NoCall
    /\ call.at \in ProvisionSteps => call.guest \notin old
    /\ call.at \in {"mkfs", "save"} =>
          volume[call.guest] = "luks" /\ call.guest \in mapped
    /\ call.at \notin ProvisionSteps => call.guest \in Guests /\ tries[call.guest] = MaxTries

\* What the collector has found is still old, or was terminated and is never provided
\* again.
VictimsInv ==
    \A i \in victims :
        \/ i \in old
        \/ /\ tries[i] = MaxTries /\ i \notin running
           /\ call.guest = i => call.at \notin ProvisionSteps

\* A running instance has its container open, and no call but a repeated provisioning.
KeptInv ==
    \A i \in running :
        /\ i \in mapped
        /\ volume[i] = "luks" \/ i \in taken
        /\ i \in named \/ torn
        /\ call.guest = i => call.at \in ProvisionSteps

StorageInv == StorageTypeOK /\ CallInv /\ VictimsInv /\ KeptInv

LEMMA StorageInitInv == ASSUME StorageInit PROVE StorageInv
  <1>1. /\ NoCall \in [guest: Guests \cup {NoGuest}, at: Step] /\ NoCall.at = "truncate"
        /\ NoCall.guest = NoGuest
        BY DEF NoCall, Step
  <1>2. MaxTries \in Nat /\ MaxDeaths \in Nat /\ NoGuest \notin Guests
        BY StorageAssumption
  <1>3. StorageTypeOK
    <2>1. /\ torn = FALSE /\ call = NoCall /\ deaths = 0 /\ mapped = {} /\ named = {}
          /\ victims = {} /\ running = {} /\ old = {} /\ taken = {}
          /\ volume = [i \in Guests |-> "none"] /\ tries = [i \in Guests |-> 0]
          BY DEF StorageInit
    <2>2. torn \in BOOLEAN
          BY <2>1
    <2>3. volume \in [Guests -> VolumeState] /\ tries \in [Guests -> 0..MaxTries]
          BY <1>2, <2>1 DEF VolumeState
    <2>4. call \in [guest: Guests \cup {NoGuest}, at: Step] /\ deaths \in 0..MaxDeaths
          BY <1>1, <1>2, <2>1
    <2>5. /\ old \subseteq Files
          /\ mapped \cup named \cup victims \cup running \cup taken \subseteq Guests
          BY <2>1
    <2>. QED BY <2>2, <2>3, <2>4, <2>5 DEF StorageTypeOK
  <1>4. CallInv
        BY <1>1, <1>2 DEF StorageInit, CallInv, ProvisionSteps
  <1>5. VictimsInv /\ KeptInv
        BY DEF StorageInit, VictimsInv, KeptInv
  <1>. QED BY <1>3, <1>4, <1>5 DEF StorageInv

LEMMA StorageStep == ASSUME StorageInv, [StorageNext]_storageVars PROVE StorageInv'
  <1>1. /\ volume \in [Guests -> VolumeState]
        /\ mapped \subseteq Guests /\ named \subseteq Guests /\ victims \subseteq Guests
        /\ running \subseteq Guests /\ taken \subseteq Guests
        /\ old \subseteq Files /\ tries \in [Guests -> 0..MaxTries]
        /\ call \in [guest: Guests \cup {NoGuest}, at: Step]
        /\ torn \in BOOLEAN /\ deaths \in 0..MaxDeaths
        BY DEF StorageInv, StorageTypeOK
  <1>2. CallInv /\ VictimsInv /\ KeptInv
        BY DEF StorageInv
  <1>3. MaxTries \in Nat /\ MaxDeaths \in Nat /\ NoGuest \notin Guests
        BY StorageAssumption
  <1>4. old \subseteq Guests /\ \A i \in old : volume[i] # "none"
        BY <1>1 DEF Files
  <1>5. /\ NoCall \in [guest: Guests \cup {NoGuest}, at: Step] /\ NoCall.at = "truncate"
        /\ NoCall.guest = NoGuest
        BY DEF NoCall, Step
  <1>6. ASSUME NEW i \in Guests, Provision(i) PROVE StorageInv'
    <2>1. StorageTypeOK'
          BY <1>1, <1>3, <1>4, <1>5, <1>6
             DEF Provision, At, Goto, Step, VolumeState, Files, StorageTypeOK
    <2>2. CallInv'
          BY <1>1, <1>2, <1>3, <1>4, <1>5, <1>6
             DEF Provision, At, Goto, CallInv, ProvisionSteps, Step
    <2>3. VictimsInv'
          BY <1>1, <1>2, <1>3, <1>4, <1>5, <1>6
             DEF Provision, At, Goto, CallInv, VictimsInv, KeptInv, ProvisionSteps
    <2>4. KeptInv'
          BY <1>1, <1>2, <1>3, <1>4, <1>5, <1>6
             DEF Provision, At, Goto, CallInv, VictimsInv, KeptInv, ProvisionSteps
    <2>. QED BY <2>1, <2>2, <2>3, <2>4 DEF StorageInv
  <1>7. ASSUME NEW i \in Guests, Terminate(i) PROVE StorageInv'
    <2>1. StorageTypeOK'
          BY <1>1, <1>3, <1>4, <1>5, <1>7
             DEF Terminate, At, Goto, Step, VolumeState, Files, StorageTypeOK
    <2>2. CallInv'
          BY <1>1, <1>2, <1>3, <1>4, <1>5, <1>7
             DEF Terminate, At, Goto, CallInv, ProvisionSteps, Step
    <2>3. VictimsInv'
          BY <1>1, <1>2, <1>3, <1>4, <1>5, <1>7
             DEF Terminate, At, Goto, CallInv, VictimsInv, KeptInv, ProvisionSteps
    <2>4. KeptInv'
          BY <1>1, <1>2, <1>3, <1>4, <1>5, <1>7
             DEF Terminate, At, Goto, CallInv, VictimsInv, KeptInv, ProvisionSteps
    <2>. QED BY <2>1, <2>2, <2>3, <2>4 DEF StorageInv
  <1>8. ASSUME NEW i \in Guests, Truncate(i) PROVE StorageInv'
    <2>1. StorageTypeOK'
          BY <1>1, <1>3, <1>4, <1>5, <1>8
             DEF Truncate, At, Goto, Step, VolumeState, Files, StorageTypeOK
    <2>2. CallInv'
          BY <1>1, <1>2, <1>3, <1>4, <1>5, <1>8
             DEF Truncate, At, Goto, CallInv, ProvisionSteps, Step
    <2>3. VictimsInv'
          BY <1>1, <1>2, <1>3, <1>4, <1>5, <1>8
             DEF Truncate, At, Goto, CallInv, VictimsInv, KeptInv, ProvisionSteps
    <2>4. KeptInv'
          BY <1>1, <1>2, <1>3, <1>4, <1>5, <1>8
             DEF Truncate, At, Goto, CallInv, VictimsInv, KeptInv, ProvisionSteps
    <2>. QED BY <2>1, <2>2, <2>3, <2>4 DEF StorageInv
  <1>9. ASSUME NEW i \in Guests, Format(i) PROVE StorageInv'
    <2>1. StorageTypeOK'
          BY <1>1, <1>3, <1>4, <1>5, <1>9
             DEF Format, At, Goto, Step, VolumeState, Files, StorageTypeOK
    <2>2. CallInv'
          BY <1>1, <1>2, <1>3, <1>4, <1>5, <1>9
             DEF Format, At, Goto, CallInv, ProvisionSteps, Step
    <2>3. VictimsInv'
          BY <1>1, <1>2, <1>3, <1>4, <1>5, <1>9
             DEF Format, At, Goto, CallInv, VictimsInv, KeptInv, ProvisionSteps
    <2>4. KeptInv'
          BY <1>1, <1>2, <1>3, <1>4, <1>5, <1>9
             DEF Format, At, Goto, CallInv, VictimsInv, KeptInv, ProvisionSteps
    <2>. QED BY <2>1, <2>2, <2>3, <2>4 DEF StorageInv
  <1>10. ASSUME NEW i \in Guests, Open(i) PROVE StorageInv'
    <2>1. StorageTypeOK'
          BY <1>1, <1>3, <1>4, <1>5, <1>10
             DEF Open, At, Goto, Step, VolumeState, Files, StorageTypeOK
    <2>2. CallInv'
          BY <1>1, <1>2, <1>3, <1>4, <1>5, <1>10
             DEF Open, At, Goto, CallInv, ProvisionSteps, Step
    <2>3. VictimsInv'
          BY <1>1, <1>2, <1>3, <1>4, <1>5, <1>10
             DEF Open, At, Goto, CallInv, VictimsInv, KeptInv, ProvisionSteps
    <2>4. KeptInv'
          BY <1>1, <1>2, <1>3, <1>4, <1>5, <1>10
             DEF Open, At, Goto, CallInv, VictimsInv, KeptInv, ProvisionSteps
    <2>. QED BY <2>1, <2>2, <2>3, <2>4 DEF StorageInv
  <1>11. ASSUME NEW i \in Guests, MakeFilesystem(i) PROVE StorageInv'
    <2>1. StorageTypeOK'
          BY <1>1, <1>3, <1>4, <1>5, <1>11
             DEF MakeFilesystem, At, Goto, Step, VolumeState, Files, StorageTypeOK
    <2>2. CallInv'
          BY <1>1, <1>2, <1>3, <1>4, <1>5, <1>11
             DEF MakeFilesystem, At, Goto, CallInv, ProvisionSteps, Step
    <2>3. VictimsInv'
          BY <1>1, <1>2, <1>3, <1>4, <1>5, <1>11
             DEF MakeFilesystem, At, Goto, CallInv, VictimsInv, KeptInv, ProvisionSteps
    <2>4. KeptInv'
          BY <1>1, <1>2, <1>3, <1>4, <1>5, <1>11
             DEF MakeFilesystem, At, Goto, CallInv, VictimsInv, KeptInv, ProvisionSteps
    <2>. QED BY <2>1, <2>2, <2>3, <2>4 DEF StorageInv
  <1>12. ASSUME NEW i \in Guests, SaveState(i) PROVE StorageInv'
    <2>1. StorageTypeOK'
          BY <1>1, <1>3, <1>4, <1>5, <1>12
             DEF SaveState, At, Goto, Step, VolumeState, Files, StorageTypeOK
    <2>2. CallInv'
          BY <1>1, <1>2, <1>3, <1>4, <1>5, <1>12
             DEF SaveState, At, Goto, CallInv, ProvisionSteps, Step
    <2>3. VictimsInv'
          BY <1>1, <1>2, <1>3, <1>4, <1>5, <1>12
             DEF SaveState, At, Goto, CallInv, VictimsInv, KeptInv, ProvisionSteps
    <2>4. KeptInv'
          BY <1>1, <1>2, <1>3, <1>4, <1>5, <1>12
             DEF SaveState, At, Goto, CallInv, VictimsInv, KeptInv, ProvisionSteps
    <2>. QED BY <2>1, <2>2, <2>3, <2>4 DEF StorageInv
  <1>13. ASSUME NEW i \in Guests, ProvisionFails(i) PROVE StorageInv'
    <2>1. StorageTypeOK'
          BY <1>1, <1>3, <1>4, <1>5, <1>13
             DEF ProvisionFails, At, Goto, Step, VolumeState, Files, StorageTypeOK
    <2>2. CallInv'
          BY <1>1, <1>2, <1>3, <1>4, <1>5, <1>13
             DEF ProvisionFails, At, Goto, CallInv, ProvisionSteps, Step
    <2>3. VictimsInv'
          BY <1>1, <1>2, <1>3, <1>4, <1>5, <1>13
             DEF ProvisionFails, At, Goto, CallInv, VictimsInv, KeptInv, ProvisionSteps
    <2>4. KeptInv'
          BY <1>1, <1>2, <1>3, <1>4, <1>5, <1>13
             DEF ProvisionFails, At, Goto, CallInv, VictimsInv, KeptInv, ProvisionSteps
    <2>. QED BY <2>1, <2>2, <2>3, <2>4 DEF StorageInv
  <1>14. ASSUME NEW i \in Guests, Unlink(i) PROVE StorageInv'
    <2>1. StorageTypeOK'
          BY <1>1, <1>3, <1>4, <1>5, <1>14
             DEF Unlink, At, Goto, Step, VolumeState, Files, StorageTypeOK
    <2>2. CallInv'
          BY <1>1, <1>2, <1>3, <1>4, <1>5, <1>14
             DEF Unlink, At, Goto, CallInv, ProvisionSteps, Step
    <2>3. VictimsInv'
          BY <1>1, <1>2, <1>3, <1>4, <1>5, <1>14
             DEF Unlink, At, Goto, CallInv, VictimsInv, KeptInv, ProvisionSteps
    <2>4. KeptInv'
          BY <1>1, <1>2, <1>3, <1>4, <1>5, <1>14
             DEF Unlink, At, Goto, CallInv, VictimsInv, KeptInv, ProvisionSteps
    <2>. QED BY <2>1, <2>2, <2>3, <2>4 DEF StorageInv
  <1>15. ASSUME NEW i \in Guests, RemoveState(i) PROVE StorageInv'
    <2>1. StorageTypeOK'
          BY <1>1, <1>3, <1>4, <1>5, <1>15
             DEF RemoveState, At, Goto, Step, VolumeState, Files, StorageTypeOK
    <2>2. CallInv'
          BY <1>1, <1>2, <1>3, <1>4, <1>5, <1>15
             DEF RemoveState, At, Goto, CallInv, ProvisionSteps, Step
    <2>3. VictimsInv'
          BY <1>1, <1>2, <1>3, <1>4, <1>5, <1>15
             DEF RemoveState, At, Goto, CallInv, VictimsInv, KeptInv, ProvisionSteps
    <2>4. KeptInv'
          BY <1>1, <1>2, <1>3, <1>4, <1>5, <1>15
             DEF RemoveState, At, Goto, CallInv, VictimsInv, KeptInv, ProvisionSteps
    <2>. QED BY <2>1, <2>2, <2>3, <2>4 DEF StorageInv
  <1>16. ASSUME NEW i \in Guests, NEW b \in BOOLEAN, Close(i, b) PROVE StorageInv'
    <2>1. StorageTypeOK'
          BY <1>1, <1>3, <1>4, <1>5, <1>16
             DEF Close, At, Goto, Step, VolumeState, Files, StorageTypeOK
    <2>2. CallInv'
          BY <1>1, <1>2, <1>3, <1>4, <1>5, <1>16
             DEF Close, At, Goto, CallInv, ProvisionSteps, Step
    <2>3. VictimsInv'
          BY <1>1, <1>2, <1>3, <1>4, <1>5, <1>16
             DEF Close, At, Goto, CallInv, VictimsInv, KeptInv, ProvisionSteps
    <2>4. KeptInv'
          BY <1>1, <1>2, <1>3, <1>4, <1>5, <1>16
             DEF Close, At, Goto, CallInv, VictimsInv, KeptInv, ProvisionSteps
    <2>. QED BY <2>1, <2>2, <2>3, <2>4 DEF StorageInv
  <1>17. ASSUME NEW i \in Guests, NEW b \in BOOLEAN, Erase(i, b) PROVE StorageInv'
    <2>1. StorageTypeOK'
          BY <1>1, <1>3, <1>4, <1>5, <1>17
             DEF Erase, At, Goto, Step, VolumeState, Files, StorageTypeOK
    <2>2. CallInv'
          BY <1>1, <1>2, <1>3, <1>4, <1>5, <1>17
             DEF Erase, At, Goto, CallInv, ProvisionSteps, Step
    <2>3. VictimsInv'
          BY <1>1, <1>2, <1>3, <1>4, <1>5, <1>17
             DEF Erase, At, Goto, CallInv, VictimsInv, KeptInv, ProvisionSteps
    <2>4. KeptInv'
          BY <1>1, <1>2, <1>3, <1>4, <1>5, <1>17
             DEF Erase, At, Goto, CallInv, VictimsInv, KeptInv, ProvisionSteps
    <2>. QED BY <2>1, <2>2, <2>3, <2>4 DEF StorageInv
  <1>18. ASSUME NEW i \in Guests, Ages(i) PROVE StorageInv'
    <2>1. StorageTypeOK'
          BY <1>1, <1>3, <1>4, <1>5, <1>18
             DEF Ages, At, Goto, Step, VolumeState, Files, StorageTypeOK
    <2>2. CallInv'
          BY <1>1, <1>2, <1>3, <1>4, <1>5, <1>18
             DEF Ages, At, Goto, CallInv, ProvisionSteps, Step
    <2>3. VictimsInv'
          BY <1>1, <1>2, <1>3, <1>4, <1>5, <1>18
             DEF Ages, At, Goto, CallInv, VictimsInv, KeptInv, ProvisionSteps
    <2>4. KeptInv'
          BY <1>1, <1>2, <1>3, <1>4, <1>5, <1>18
             DEF Ages, At, Goto, CallInv, VictimsInv, KeptInv, ProvisionSteps
    <2>. QED BY <2>1, <2>2, <2>3, <2>4 DEF StorageInv
  <1>19. ASSUME NEW i \in Guests, DeleteOrphan(i) PROVE StorageInv'
    <2>1. StorageTypeOK'
          BY <1>1, <1>3, <1>4, <1>5, <1>19
             DEF DeleteOrphan, At, Goto, Step, VolumeState, Files, StorageTypeOK
    <2>2. CallInv'
          BY <1>1, <1>2, <1>3, <1>4, <1>5, <1>19
             DEF DeleteOrphan, At, Goto, CallInv, VictimsInv, ProvisionSteps, Step
    <2>3. VictimsInv'
          BY <1>1, <1>2, <1>3, <1>4, <1>5, <1>19
             DEF DeleteOrphan, At, Goto, CallInv, VictimsInv, KeptInv, ProvisionSteps
    <2>4. KeptInv'
          BY <1>1, <1>2, <1>3, <1>4, <1>5, <1>19
             DEF DeleteOrphan, At, Goto, CallInv, VictimsInv, KeptInv, ProvisionSteps
    <2>. QED BY <2>1, <2>2, <2>3, <2>4 DEF StorageInv
  <1>20. ASSUME ScanOrphans PROVE StorageInv'
    <2>1. StorageTypeOK'
          BY <1>1, <1>3, <1>4, <1>5, <1>20
             DEF ScanOrphans, At, Goto, Step, VolumeState, Files, StorageTypeOK
    <2>2. CallInv'
          BY <1>1, <1>2, <1>3, <1>4, <1>5, <1>20
             DEF ScanOrphans, At, Goto, CallInv, ProvisionSteps, Step
    <2>3. VictimsInv'
          BY <1>1, <1>2, <1>3, <1>4, <1>5, <1>20
             DEF ScanOrphans, At, Goto, CallInv, VictimsInv, KeptInv, ProvisionSteps
    <2>4. KeptInv'
          BY <1>1, <1>2, <1>3, <1>4, <1>5, <1>20
             DEF ScanOrphans, At, Goto, CallInv, VictimsInv, KeptInv, ProvisionSteps
    <2>. QED BY <2>1, <2>2, <2>3, <2>4 DEF StorageInv
  <1>21. ASSUME AgentDies PROVE StorageInv'
    <2>1. StorageTypeOK'
      <3>1. /\ deaths < MaxDeaths /\ deaths' = deaths + 1 /\ call' = NoCall /\ victims' = {}
            /\ named' \subseteq Guests
            /\ UNCHANGED <<volume, mapped, old, tries, running, taken>>
            BY <1>1, <1>21 DEF AgentDies
      <3>2. UNCHANGED torn \/ torn' = TRUE
            BY <1>21 DEF AgentDies
      <3>3. torn' \in BOOLEAN
            BY <1>1, <3>2
      <3>4. deaths' \in 0..MaxDeaths
            BY <1>1, <1>3, <3>1
      <3>5. call' \in [guest: Guests \cup {NoGuest}, at: Step]
            BY <1>5, <3>1
      <3>. QED BY <1>1, <3>1, <3>3, <3>4, <3>5 DEF StorageTypeOK, Files
    <2>2. CallInv'
          BY <1>1, <1>2, <1>3, <1>4, <1>5, <1>21
             DEF AgentDies, At, Goto, CallInv, ProvisionSteps, Step
    <2>3. VictimsInv'
          BY <1>1, <1>2, <1>3, <1>4, <1>5, <1>21
             DEF AgentDies, At, Goto, CallInv, VictimsInv, KeptInv, ProvisionSteps
    <2>4. KeptInv'
          BY <1>1, <1>2, <1>3, <1>4, <1>5, <1>21
             DEF AgentDies, At, Goto, CallInv, VictimsInv, KeptInv, ProvisionSteps
    <2>. QED BY <2>1, <2>2, <2>3, <2>4 DEF StorageInv
  <1>22. CASE UNCHANGED storageVars
    <2>1. UNCHANGED <<volume, mapped, old, named, call, victims, tries, running, torn, taken,
                      deaths>>
          BY <1>22 DEF storageVars
    <2>2. StorageTypeOK'
          BY <1>1, <2>1 DEF StorageTypeOK, Files
    <2>3. CallInv' /\ VictimsInv' /\ KeptInv'
          BY <1>2, <2>1 DEF CallInv, VictimsInv, KeptInv
    <2>. QED BY <2>2, <2>3 DEF StorageInv
  <1>. QED BY <1>6, <1>7, <1>8, <1>9, <1>10, <1>11, <1>12, <1>13, <1>14, <1>15, <1>16,
              <1>17, <1>18, <1>19, <1>20, <1>21, <1>22 DEF StorageNext, CallSteps, GcSteps

LEMMA StorageIsSafe == StorageSpec => [](StorageTypeOK /\ RunningIsKept)
  <1>1. ASSUME StorageInv PROVE StorageTypeOK /\ RunningIsKept
        BY <1>1 DEF StorageInv, KeptInv, RunningIsKept
  <1>. QED BY <1>1, StorageInitInv, StorageStep, PTL DEF StorageSpec

-----------------------------------------------------------------------------
(* AgentUpdate *)

\* What is about to be put in place is whole, and what is about to be restored was kept.
UpdateInv ==
    /\ UpdateTypeOK /\ BrokenOnlyByRollback
    /\ job \in {"backup", "copy", "swap"} => tmp \in 2..MaxVersion
    /\ job = "restore" => bak # 0

LEMMA UpdateIsSafe ==
    UpdateInit /\ [][UpdateNext]_updateVars => [](UpdateTypeOK /\ BrokenOnlyByRollback)
  <1>1. MaxVersion \in Nat /\ MaxVersion >= 1
        BY UpdateAssumption
  <1>2. ASSUME UpdateInit PROVE UpdateInv
    <2>1. rolled = FALSE /\ target = 1 /\ tmp = 0 /\ bak = 0 /\ job = "idle"
          BY <1>2 DEF UpdateInit
    <2>2. rolled \in BOOLEAN
          BY <2>1
    <2>3. target \in Content \ {0} /\ tmp \in Content /\ bak \in Content /\ target # Part
          BY <1>1, <2>1 DEF Content, Part
    <2>. QED BY <2>1, <2>2, <2>3 DEF UpdateInv, UpdateTypeOK, BrokenOnlyByRollback, Jobs
  <1>3. ASSUME UpdateInv, [UpdateNext]_updateVars PROVE UpdateInv'
    <2>. USE DEF UpdateInv, UpdateTypeOK, BrokenOnlyByRollback, Content, Part, Jobs
    <2>1. CASE StartUpdate
          BY <1>1, <1>3, <2>1 DEF StartUpdate
    <2>2. CASE WriteTmp
          BY <1>1, <1>3, <2>2 DEF WriteTmp
    <2>3. CASE StartBackup
          BY <1>1, <1>3, <2>3 DEF StartBackup
    <2>4. CASE Backup
          BY <1>1, <1>3, <2>4 DEF Backup
    <2>5. CASE Swap
      <3>1. rolled' = FALSE
            BY <2>5 DEF Swap
      <3>2. rolled' \in BOOLEAN
            BY <3>1
      <3>3. /\ job' = "idle" /\ target' \in 2..MaxVersion /\ tmp' = 0 /\ bak' = bak
            /\ bak \in Content
            BY <1>3, <2>5 DEF Swap
      <3>4. /\ target' \in Content \ {0} /\ target' # Part /\ tmp' \in Content /\ bak' \in Content
            BY <1>1, <3>3
      <3>. QED BY ONLY <3>2, <3>3, <3>4 DEF UpdateInv, UpdateTypeOK, BrokenOnlyByRollback, Jobs
    <2>6. CASE UpdateFails
          BY <1>1, <1>3, <2>6 DEF UpdateFails
    <2>7. CASE StartRollback
          BY <1>1, <1>3, <2>7 DEF StartRollback
    <2>8. CASE Restore
          BY <1>1, <1>3, <2>8 DEF Restore
    <2>9. CASE UpdaterDies
          BY <1>1, <1>3, <2>9 DEF UpdaterDies
    <2>10. CASE UNCHANGED updateVars
          BY <1>3, <2>10 DEF updateVars
    <2>. QED BY <1>3, <2>1, <2>2, <2>3, <2>4, <2>5, <2>6, <2>7, <2>8, <2>9, <2>10 DEF UpdateNext
  <1>4. UpdateInv => UpdateTypeOK /\ BrokenOnlyByRollback
        BY DEF UpdateInv
  <1>. QED BY <1>2, <1>3, <1>4, PTL

-----------------------------------------------------------------------------
(* The scenes: what each component's specification promises. *)

LEMMA EstateSceneStep ==
    ASSUME [EstateNext]_<<scene, estateVars>>
    PROVE  /\ [FleetNext]_fleetVars /\ [MarketNext]_marketVars /\ [CommandsNext]_commandVars
           /\ [StorageNext]_storageVars /\ [UpdateNext]_updateVars
  <1>1. CASE EstateNext
        BY <1>1 DEF EstateNext
  <1>2. CASE UNCHANGED <<scene, estateVars>>
        BY <1>2 DEF estateVars
  <1>. QED BY <1>1, <1>2

LEMMA EstateScenes ==
    EstateSpec => /\ FleetInit /\ [][FleetNext]_fleetVars
                  /\ MarketInit /\ [][MarketNext]_marketVars
                  /\ CommandsSpec
                  /\ StorageSpec
                  /\ UpdateInit /\ [][UpdateNext]_updateVars
  <1>1. EstateInit => FleetInit /\ MarketInit /\ CommandsInit /\ StorageInit /\ UpdateInit
        BY DEF EstateInit
  <1>. QED BY <1>1, EstateSceneStep, PTL DEF EstateSpec, CommandsSpec, StorageSpec

\* A verified host has been measured by every benchmark, and an index names rows that
\* exist: for any hosts, benchmarks, listings, workers and heartbeats at a time.
THEOREM SupplyStaysSafe == EstateSpec => []SupplySafety
  <1>1. FleetSafety /\ (MarketTypeOK /\ IndexNamesRows) => SupplySafety
        BY DEF FleetSafety, SupplySafety
  <1>. QED BY <1>1, EstateScenes, FleetIsSafe, MarketIsSafe, PTL

\* The sweep for silent hosts lifts the suspension of no host but those suspended between
\* its select and its update: for any hosts, workers and heartbeats at a time.
THEOREM SweepStaysGentle == EstateSpec => SweepSparesSuspended
  <1>. QED BY EstateScenes, FleetIsSafe, PTL

\* An acknowledged command has run, a command runs twice only if the agent's store has
\* lost its key or two calls looked for it at once, and only a rollback that was cut, or
\* that restored a part, leaves a part of the agent's binary: for any commands, copies,
\* store and versions.  A running guest loses its volume only to the cache
\* manager, past the TTL, and its entry only to a crash that cut a write of the file.
THEOREM AgentStaysSafe == EstateSpec => []AgentSafety
  <1>1. (CommandsTypeOK /\ AckedRan /\ RunsOnceUnlessExcused)
           /\ (StorageTypeOK /\ RunningIsKept)
           /\ (UpdateTypeOK /\ BrokenOnlyByRollback) => AgentSafety
        BY DEF AgentSafety
  <1>. QED BY <1>1, EstateScenes, CommandsAreSafe, StorageIsSafe, UpdateIsSafe, PTL
=============================================================================
