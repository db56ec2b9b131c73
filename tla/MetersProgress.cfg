SPECIFICATION FairSpec
CONSTANTS
    Instances = {i1}
    KillSwitchDeployed = TRUE
    Subscribers = {s1}
    Chains = {c1, c2}
    NoInstance = NoInstance
    NoChain = NoChain
    MaxBus = 1
    Lossy = TRUE
    MaxFailures = 0
PROPERTIES ChainsWindDown
