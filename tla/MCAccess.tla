------------------------------- MODULE MCAccess -------------------------------
(***************************************************************************)
(* The ways into the platform, the vetting of hosts, the router with its   *)
(* copilot and the gate before a launch, which share no state, in one      *)
(* instance: each behaviour is a behaviour of one component, the scene.    *)
(***************************************************************************)
EXTENDS AuthTokens, DeviceLogin, AdminControls, ApiGateway, GatewayTunnels, HostVetting,
        CopilotTurns, ListingRanker, LaunchGate

VARIABLE scene

accessVars == <<authVars, deviceVars, adminVars, gatewayVars, tunnelVars, vettingVars,
                copilotVars, rankerVars, launchVars>>

AccessInit ==
    /\ scene \in {"auth", "device", "admin", "gateway", "tunnels", "vetting", "copilot",
                 "ranker", "launch"}
    /\ AuthInit /\ DeviceInit /\ AdminInit /\ GatewayInit
    /\ TunnelInit /\ VettingInit /\ CopilotInit /\ RankerInit /\ LaunchInit
    /\ scene = "launch" \/ (price = 1 /\ \A t \in Tenants : purse[t] = 1)

AccessNext ==
    /\ UNCHANGED scene
    /\ \/ scene = "auth" /\ AuthNext
          /\ UNCHANGED <<deviceVars, adminVars, gatewayVars, tunnelVars,
                         vettingVars, copilotVars, rankerVars, launchVars>>
       \/ scene = "device" /\ DeviceNext
          /\ UNCHANGED <<authVars, adminVars, gatewayVars, tunnelVars,
                         vettingVars, copilotVars, rankerVars, launchVars>>
       \/ scene = "admin" /\ AdminNext
          /\ UNCHANGED <<authVars, deviceVars, gatewayVars, tunnelVars,
                         vettingVars, copilotVars, rankerVars, launchVars>>
       \/ scene = "gateway" /\ GatewayNext
          /\ UNCHANGED <<authVars, deviceVars, adminVars, tunnelVars,
                         vettingVars, copilotVars, rankerVars, launchVars>>
       \/ scene = "tunnels" /\ TunnelNext
          /\ UNCHANGED <<authVars, deviceVars, adminVars, gatewayVars,
                         vettingVars, copilotVars, rankerVars, launchVars>>
       \/ scene = "vetting" /\ VettingNext
          /\ UNCHANGED <<authVars, deviceVars, adminVars, gatewayVars,
                         tunnelVars, copilotVars, rankerVars, launchVars>>
       \/ scene = "copilot" /\ CopilotNext
          /\ UNCHANGED <<authVars, deviceVars, adminVars, gatewayVars,
                         tunnelVars, vettingVars, rankerVars, launchVars>>
       \/ scene = "ranker" /\ RankerNext
          /\ UNCHANGED <<authVars, deviceVars, adminVars, gatewayVars,
                         tunnelVars, vettingVars, copilotVars, launchVars>>
       \/ scene = "launch" /\ LaunchNext
          /\ UNCHANGED <<authVars, deviceVars, adminVars, gatewayVars,
                         tunnelVars, vettingVars, copilotVars, rankerVars>>

AccessSpec == AccessInit /\ [][AccessNext]_<<scene, accessVars>>

MCOffers == [price : {4, 10}, bench : {NoBench, 1, 3, 10}, up : {TRUE}, reputation : {5000, 9000}]
            \cup [price : {7}, bench : {3}, up : BOOLEAN, reputation : {5000}]

\* Two requests have nothing but their names to tell them apart; the configuration
\* gives them the same names in the components that are symmetric in them.
AccessSymmetry == Permutations(LaunchWorkers)

-----------------------------------------------------------------------------

\* What holds of the two ways to log in: a used refresh token has a successor and is
\* rotated twice only by requests that overlap, a device gets its pair only after its
\* user approved it, and a user is verified only by a code that is spent.
LoginSafety ==
    /\ AuthTypeOK /\ UsedMeansReplaced /\ RotationsOverlap
    /\ DeviceTypeOK /\ PairsFollowApproval /\ VerifiedBySpentCode

\* What holds of the powers administrators hold and grant: a quorum approved what is
\* executable, an elevation ends, nothing is verified for a locked key, a nonce comes
\* back only as it expires, and every grant to a host was decided.
GrantSafety ==
    /\ AdminTypeOK /\ ApprovedByQuorum /\ ElevationIsBounded
    /\ LockedVerifiesNothing /\ NonceReusedOnlyAtTheEdge
    /\ VettingTypeOK /\ GrantsWereDecided

\* What holds of the gateway and its tunnels: a minute's requests are limited, an
\* upstream acts at most once on a request and only if it was let through, and a
\* registered tunnel has a connection that serves it.
GatewaySafety ==
    /\ GatewayTypeOK /\ MinuteIsLimited /\ ActsOnceIfAllowed
    /\ TunnelTypeOK /\ TunnelIsServed

\* What holds of the checks before a launch: a row is inserted only for a listing and a
\* host that were seen fit, at a price the listing had and the wallet covered.
LaunchSafety == LaunchTypeOK /\ SeenBeforeLaunch

\* What holds of the router and its copilot: every question gets an answer after it,
\* an offer as good in every respect is not ranked below, and one without a benchmark
\* passes only slow ones.
RouterSafety ==
    /\ CopilotTypeOK /\ QuestionsAreAnswered
    /\ RankerTypeOK /\ BetterIsNotBelow /\ MissingBeatsOnlySlow
=============================================================================
