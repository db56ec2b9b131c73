SPECIFICATION Spec
CONSTANTS
    Instances = {i1}
    Procs = {p1, p2}
    NoInstance = NoInstance
    NoProc = NoProc
    MaxStops = 0
    MaxTeardowns = 1
    MaxTicks = 0
    MaxCrashes = 0
    AgentReports = TRUE
    KillSwitchDeployed = FALSE
SYMMETRY Symmetry
\* A launch that is rolled back ends its instance for good.
CHECK_DEADLOCK FALSE
PROPERTIES TerminatedIsFinal
