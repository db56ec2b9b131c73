SPECIFICATION Spec
CONSTANTS
    Instances = {i1}
    Procs = {p1, p2}
    NoInstance = NoInstance
    NoProc = NoProc
    MaxStops = 1
    MaxTeardowns = 1
    MaxTicks = 0
    MaxCrashes = 0
    AgentReports = TRUE
    KillSwitchDeployed = TRUE
SYMMETRY Symmetry
\* A launch that is rolled back ends its instance for good.
CHECK_DEADLOCK FALSE
INVARIANTS TypeOK RunningHasKey RowBeforeWork WorkerBeliefs AnnouncedAfterCommit
PROPERTIES ReceiptIsFinal ImplementsRecord
