SPECIFICATION Spec
CONSTANTS
    Instances = {i1}
    Procs = {p1, p2}
    NoInstance = NoInstance
    NoProc = NoProc
    MaxStops = 0
    MaxTeardowns = 1
    MaxTicks = 1
    MaxCrashes = 1
    AgentReports = FALSE
    KillSwitchDeployed = FALSE
SYMMETRY Symmetry
VIEW WithoutEvents
\* A launch that is rolled back ends its instance for good.
CHECK_DEADLOCK FALSE
INVARIANTS TerminatedIsSettled
PROPERTIES RunsAtMostOnce ImplementsRecord
