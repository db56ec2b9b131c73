--------------------------- MODULE SecurityVerdicts ---------------------------
(***************************************************************************)
(* The verdicts of the security service: the trust score of a host, the    *)
(* risk score of a workload, the scan of an image and the launch limits of *)
(* a trust tier.  Each is a function of a sheet of observations; a         *)
(* behaviour is a sheet that gets worse, one entry at a time.              *)
(***************************************************************************)
EXTENDS Integers, Sequences, FiniteSetsExt, Functions

CONSTANTS
    Penalties,      \* of anomalies, incidents and abuse
    Counts,         \* of alerts, vulnerabilities, network violations and findings
    Risks,          \* customer_risk and host_risk, scores out of 100
    Vcpus, Vram     \* what a launch may ask for

\* A sheet starts without an observation, so each number may be nought.
ASSUME VerdictAssumption ==
    /\ Penalties \cup Counts \cup Risks \cup Vcpus \cup Vram \subseteq Nat
    /\ 0 \in Penalties \cap Counts \cap Risks \cap Vcpus \cap Vram
    /\ \A r \in Risks : r <= 100

VARIABLES
    verdict,   \* which one is asked for
    sheet      \* what it is made of

verdictVars == <<verdict, sheet>>

-----------------------------------------------------------------------------
(* calculate_host_trust_score, in tenths of a point.                        *)

Posture == [attestation : {"current", "expired", "failed", "unattested"},
            boots : 0..2,   \* secure and measured boot
            stale : SUBSET {"kernel", "agent", "runtime", "gpu"},
            network : Penalties, incidents : Penalties, abuse : Penalties]

StaleCost == [kernel |-> 70, agent |-> 70, runtime |-> 40, gpu |-> 40]

MUT_Unpenalised(p) == IF p > 10 THEN 10 * (p - 10) ELSE 100 - 10 * p

Unpenalised(p) == Max({0, 100 - 10 * p})

RawTrust(s) ==
    (IF s.attestation = "current" THEN 250 ELSE 0) + 75 * s.boots
    + 300 - SumFunctionOnSet(StaleCost, s.stale)
    + Unpenalised(s.network) + Unpenalised(s.incidents) + Unpenalised(s.abuse)

\* Without a current attestation the score is capped in the lowest band.
HostTrust(s) == IF s.attestation = "current" THEN RawTrust(s) ELSE Min({290, RawTrust(s)})

TrustBand(score) == CASE score >= 800 -> 0     \* LOW_RISK
                      [] score \in 600..799 -> 1
                      [] score \in 300..599 -> 2
                      [] score < 300 -> 3      \* CRITICAL

-----------------------------------------------------------------------------
(* calculate_runtime_risk_score, in hundredths of a point.                  *)

Workload == [customer : Risks, host : Risks, falco : Counts, cve : Counts,
             network : Counts, mining : 0..1]

MUT_Alerts(n) == n * 400

Alerts(n) == Min({10, n}) * 400

RiskScore(s) ==
    Min({10000, 15 * s.customer + 15 * s.host + Alerts(s.falco) + Min({5, s.cve}) * 600
                + Min({10, s.network}) * 300 + 4000 * s.mining})

\* 0 ALLOW, 1 MONITOR, 2 RESTRICT, 3 SUSPEND, 4 QUARANTINE
Response(score) == Cardinality({t \in {2000, 4000, 6000, 8000} : score >= t})

-----------------------------------------------------------------------------
(* scan_image.                                                              *)

Findings == [critical : Counts, high : Counts, failed : 0..1]

SEVERITY_ORDER == <<"UNKNOWN", "LOW", "MEDIUM", "HIGH", "CRITICAL">>

Worst(s) == IF s.critical > 0 THEN 5 ELSE IF s.high > 0 THEN 4 ELSE 2

\* A scan that fails or takes too long blocks.  Whatever the threshold, an image
\* without a high or critical finding passes.
Blocked(s, threshold) ==
    s.failed = 1 \/ (Worst(s) >= threshold /\ s.critical + s.high > 0)

-----------------------------------------------------------------------------
(* check_instance_launch with the defaults of a tier; 0 is unverified.      *)

Request == [vcpus : Vcpus, vram : Vram]
Tiers   == 0..3

\* No entry, no cap.
VcpuCap == [tier \in {0, 1, 2} |-> CASE tier = 0 -> 2 [] tier = 1 -> 8 [] tier = 2 -> 32]
VramCap == [tier \in {1, 2} |-> IF tier = 1 THEN 8 ELSE 48]

MUT_GpuRefused(tier) == FALSE

GpuRefused(tier) == tier = 0

Admitted(tier, s) ==
    /\ tier \in DOMAIN VcpuCap => s.vcpus <= VcpuCap[tier]
    /\ s.vram > 0 => /\ ~GpuRefused(tier)
                     /\ tier \in DOMAIN VramCap => s.vram <= VramCap[tier]

-----------------------------------------------------------------------------

Best == [posture  |-> [attestation |-> "current", boots |-> 2, stale |-> {},
                       network |-> 0, incidents |-> 0, abuse |-> 0],
         workload |-> [customer |-> 0, host |-> 0, falco |-> 0, cve |-> 0, network |-> 0, mining |-> 0],
         image    |-> [critical |-> 0, high |-> 0, failed |-> 0],
         launch   |-> [vcpus |-> 0, vram |-> 0]]

VerdictInit == verdict \in DOMAIN Best /\ sheet = Best[verdict]

\* One number of the sheet rises.
NumberRises(set, fields) ==
    \E k \in fields : \E n \in set : n > sheet[k] /\ sheet' = [sheet EXCEPT ![k] = n]

PostureWorsens ==
    /\ verdict = "posture"
    /\ \/ \E a \in {"expired", "failed", "unattested"} :
             sheet.attestation = "current" /\ sheet' = [sheet EXCEPT !.attestation = a]
       \/ sheet.boots > 0 /\ sheet' = [sheet EXCEPT !.boots = @ - 1]
       \/ \E c \in DOMAIN StaleCost \ sheet.stale : sheet' = [sheet EXCEPT !.stale = @ \cup {c}]
       \/ NumberRises(Penalties, {"network", "incidents", "abuse"})
    /\ UNCHANGED verdict

WorkloadWorsens ==
    /\ verdict = "workload"
    /\ NumberRises(Risks, {"customer", "host"}) \/ NumberRises(Counts, {"falco", "cve", "network"})
         \/ NumberRises({1}, {"mining"})
    /\ UNCHANGED verdict

FindingAdded ==
    /\ verdict = "image"
    /\ NumberRises(Counts, {"critical", "high"}) \/ NumberRises({1}, {"failed"})
    /\ UNCHANGED verdict

LaunchAsksMore ==
    /\ verdict = "launch"
    /\ NumberRises(Vcpus, {"vcpus"}) \/ NumberRises(Vram, {"vram"})
    /\ UNCHANGED verdict

VerdictNext == PostureWorsens \/ WorkloadWorsens \/ FindingAdded \/ LaunchAsksMore

VerdictSpec == VerdictInit /\ [][VerdictNext]_verdictVars

-----------------------------------------------------------------------------
(* Properties *)

\* Every variable keeps its type.
VerdictTypeOK ==
    CASE verdict = "posture"  -> sheet \in Posture
      [] verdict = "workload" -> sheet \in Workload
      [] verdict = "image"    -> sheet \in Findings
      [] verdict = "launch"   -> sheet \in Request

\* However the observations come, one more never makes a verdict milder: not the band
\* of a host, not the response to a workload, not the scan of an image under any
\* threshold, not the answer to a launch.
WorseIsNeverMilder ==
    [][CASE verdict = "posture"  -> TrustBand(HostTrust(sheet)) <= TrustBand(HostTrust(sheet'))
         [] verdict = "workload" -> Response(RiskScore(sheet)) <= Response(RiskScore(sheet'))
         [] verdict = "image"    -> \A t \in DOMAIN SEVERITY_ORDER :
                                    Blocked(sheet, t) => Blocked(sheet', t)
         [] verdict = "launch"   -> \A t \in Tiers : Admitted(t, sheet') => Admitted(t, sheet)
      ]_verdictVars

\* No single kind of observation suspends a workload, however often it is made; mining
\* alone, which the telemetry task reports as critical, only restricts it.
SuspendedForTwoReasons ==
    verdict = "workload" /\ Response(RiskScore(sheet)) >= 3 =>
        Cardinality({k \in DOMAIN sheet : sheet[k] > 0}) >= 2

\* A higher tier may launch what a lower one may, and a stricter threshold blocks what
\* a laxer one does.
ScalesAreOrdered ==
    /\ verdict = "launch" => \A t, u \in Tiers : t <= u /\ Admitted(t, sheet) => Admitted(u, sheet)
    /\ verdict = "image" => \A t, u \in DOMAIN SEVERITY_ORDER :
                            t <= u /\ Blocked(sheet, u) => Blocked(sheet, t)
=============================================================================
