------------------------------- MODULE MCTrust -------------------------------
(***************************************************************************)
(* What the platform knows of its hosts, users and images, as components   *)
(* that share no state: each behaviour is a behaviour of one component,    *)
(* the scene.                                                              *)
(***************************************************************************)
EXTENDS ReputationLog, BenchmarkScores, GpuAnalytics, PricingModel, AuditChain,
        DeviceFingerprints, SecurityVerdicts, TemplateRegistry, ConsensusGuard, HostStakes

VARIABLE scene

MCSuites  == {[fp16 |-> 10, bandwidth |-> 10], [fp16 |-> 20]}
MCRanges  == {<<10, 10>>}
MCWindows == {[samples |-> 2, thermal |-> 1000, power |-> NoScore],
              [samples |-> 3, thermal |-> 500, power |-> NoScore]}
MCMaxVotes == [PREPARE |-> 1, COMMIT |-> 6]
MCPredictions == {-500, 90000}

trustVars == <<repVars, benchVars, gpuVars, pricingVars, auditVars, fpVars,
               verdictVars, templateVars, consensusVars, stakeVars>>

\* What a component may start from is left open in its own scene only.
TrustInit ==
    /\ scene \in {"reputation", "benchmarks", "analytics", "pricing", "audit", "fingerprints",
                  "verdicts", "templates", "consensus", "stakes"}
    /\ RepInit /\ BenchInit /\ GpuInit /\ PricingInit /\ AuditInit
    /\ FpInit /\ VerdictInit /\ TemplateInit /\ ConsensusInit /\ StakesInit
    /\ scene = "reputation" \/ (Events(log) = 0 /\ trust = "unverified")
    /\ scene = "benchmarks" \/ ranges = <<>>
    /\ scene = "pricing" \/ market = 0
    /\ scene = "verdicts" \/ verdict = "launch"
    /\ scene = "templates" \/ \A t \in Slugs : clean[t]

TrustNext ==
    /\ UNCHANGED scene
    /\ IF scene = "reputation"   THEN RepNext       ELSE UNCHANGED repVars
    /\ IF scene = "benchmarks"   THEN BenchNext     ELSE UNCHANGED benchVars
    /\ IF scene = "analytics"    THEN GpuNext       ELSE UNCHANGED gpuVars
    /\ IF scene = "pricing"      THEN PricingNext   ELSE UNCHANGED pricingVars
    /\ IF scene = "audit"        THEN AuditNext     ELSE UNCHANGED auditVars
    /\ IF scene = "fingerprints" THEN FpNext        ELSE UNCHANGED fpVars
    /\ IF scene = "verdicts"     THEN VerdictNext   ELSE UNCHANGED verdictVars
    /\ IF scene = "templates"    THEN TemplateNext  ELSE UNCHANGED templateVars
    /\ IF scene = "consensus"    THEN ConsensusNext ELSE UNCHANGED consensusVars
    /\ IF scene = "stakes"       THEN StakesNext    ELSE UNCHANGED stakeVars

TrustSpec == TrustInit /\ [][TrustNext]_<<scene, trustVars>>

-----------------------------------------------------------------------------

\* What holds of reputation, benchmarks, market statistics and prices: but for overlaps
\* each part names, a violation flags its host, the latest suite is in the score and two
\* models compare one way; and a quote stays within its rails.
ReputationSafety ==
    /\ RepTypeOK /\ ViolationIsFlagged /\ CountsGrow /\ TrendHasScore
    /\ BenchTypeOK /\ LatestRunIsScored /\ CompositeBetweenParts
    /\ GpuTypeOK /\ ComparedOnce
    /\ PricingTypeOK /\ QuoteWithinRails

\* What holds of the security service and what depends on its scans: the verified part
\* of the audit chain is a prefix and a break in it has a cause, a device two accounts
\* share is noticed and counted, only two reasons suspend a workload, a template is
\* offered only if it was scanned, one that waits has its scan coming or the scan's
\* message was lost, and a teardown revokes the tokens that did not overlap it.
SecuritySafety ==
    /\ AuditTypeOK /\ VerifiedIsPrefix /\ BreakHasCause
    /\ FpTypeOK /\ SharedDeviceIsNoticed /\ SeenAsOftenAsVisited
    /\ VerdictTypeOK /\ SuspendedForTwoReasons /\ ScalesAreOrdered
    /\ TemplateTypeOK /\ OfferedIsClean /\ PendingIsAwaited /\ TokenEndsWithInstance

\* What holds of consensus and stakes: a second identity costs more, only a host that
\* moved leaves entries in a cluster behind, and what receipts return adds up.
StakesSafety ==
    /\ ConsensusTypeOK
    /\ StakesTypeOK /\ SecondIdentityPays /\ StrayEntryWasMoved /\ ReceiptsAddUp

\* What others have read is taken back only for a cause: a statistic by a refresh that
\* is out of date, a committed digest by a quorum of another view.
TakenBackForCause == DropsAreStale /\ RewrittenByAnotherView
=============================================================================
