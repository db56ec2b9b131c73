SPECIFICATION Spec
CONSTANTS
    Instances = {i1}
    KillSwitchDeployed = FALSE
    Subscribers = {s1, s2}
    Chains = {c1, c2}
    NoInstance = NoInstance
    NoChain = NoChain
    MaxBus = 1
    Lossy = TRUE
    MaxFailures = 1
SYMMETRY Symmetry
VIEW WithoutReceipts
INVARIANTS TypeOK MeteredHasRun
PROPERTIES RefundsOverlap JobRowIsFinal
