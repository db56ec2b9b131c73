------------------------------- MODULE MCEstate -------------------------------
(***************************************************************************)
(* The hosts and what runs on them, as components that share no state:     *)
(* each behaviour is a behaviour of one component, the scene.              *)
(***************************************************************************)
EXTENDS HostFleet, MarketIndex, AgentCommands, AgentStorage, AgentUpdate

VARIABLE scene

estateVars ==
    <<fleetVars, marketVars, commandVars, storageVars, updateVars>>

EstateInit ==
    /\ scene \in {"fleet", "market", "commands", "storage", "update"}
    /\ FleetInit /\ MarketInit /\ CommandsInit
    /\ StorageInit /\ UpdateInit

EstateNext ==
    /\ UNCHANGED scene
    /\ \/ scene = "fleet" /\ FleetNext
          /\ UNCHANGED <<marketVars, commandVars, storageVars, updateVars>>
       \/ scene = "market" /\ MarketNext
          /\ UNCHANGED <<fleetVars, commandVars, storageVars, updateVars>>
       \/ scene = "commands" /\ CommandsNext
          /\ UNCHANGED <<fleetVars, marketVars, storageVars, updateVars>>
       \/ scene = "storage" /\ StorageNext
          /\ UNCHANGED <<fleetVars, marketVars, commandVars, updateVars>>
       \/ scene = "update" /\ UpdateNext
          /\ UNCHANGED <<fleetVars, marketVars, commandVars, storageVars>>

\* A component's schedule is assumed in its own scene only: in the others its actions
\* may be enabled and are never taken.
EstateFairness ==
    \/ scene = "fleet"   /\ SweepFairness
    \/ scene = "market"  /\ MarketFairness
    \/ scene \in {"commands", "storage", "update"}

EstateSpec == EstateInit /\ [][EstateNext]_<<scene, estateVars>> /\ EstateFairness

-----------------------------------------------------------------------------

\* What holds of hosts and of the index of their listings: a verified host has been
\* measured by every benchmark, and the index names rows that exist.
SupplySafety ==
    /\ FleetTypeOK /\ VerifiedIsMeasured
    /\ MarketTypeOK /\ IndexNamesRows

\* What holds on a host: an acknowledged command has run, and twice only for a reason
\* it can have, a running guest loses its volume to nothing but the collector's TTL, and
\* only a failed rollback leaves a broken agent.
AgentSafety ==
    /\ CommandsTypeOK /\ AckedRan /\ RunsOnceUnlessExcused
    /\ StorageTypeOK /\ RunningIsKept
    /\ UpdateTypeOK /\ BrokenOnlyByRollback
=============================================================================
