SPECIFICATION Spec
CONSTANTS
    Instances = {i1}
    KillSwitchDeployed = FALSE
    Subscribers = {s1}
    Chains = {c1}
    NoInstance = NoInstance
    NoChain = NoChain
    MaxBus = 1
    Lossy = FALSE
    MaxFailures = 0
SYMMETRY Symmetry
VIEW WithoutReceipts
INVARIANTS StoppedIsRefunded
