SPECIFICATION TrustSpec
CONSTANTS
    RepSessions = {r1, r2}
    History = {0, 9}
    MaxEvents = 2
    MaxComputed = 2
    TrendLength = 1
    MaxRetries = 1
    BenchHosts = {h1}
    BenchSessions = {s1, s2}
    Suites <- MCSuites
    AdminRanges <- MCRanges
    Windows <- MCWindows
    Reliabilities = {100}
    NoScore = NoScore
    MaxRuns = 3
    MaxScores = 2
    GpuModels = {g1, g2}
    Refreshers = {f1, f2}
    MaxRefreshes = 4
    Processes = {worker, api}
    Worker = worker
    Medians = {4000, 35000}
    Predictions <- MCPredictions
    Floor = 5000
    Cap = 36000
    MinRows = 2
    MaxMarket = 2
    MaxTrainings = 2
    MaxQuotes = 2
    AuditSessions = {a1, a2}
    MaxRows = 4
    MaxTampers = 1
    Accounts = {u1, u2}
    FpSessions = {t1, t2}
    MaxOpens = 4
    Penalties = {0, 5, 20}
    Counts = {0, 4, 11, 20}
    Risks = {0, 60, 100}
    Vcpus = {0, 2, 8, 32, 64}
    Vram = {0, 8, 24, 48, 80}
    Slugs = {m1}
    Registrars = {g1, g2}
    Scanners = {q1, q2}
    Viewers = {v1}
    UiInstances = {i1}
    ScanMock = FALSE
    MaxTokens = 2
    Nodes = {n1, n2, n3, n4}
    Faulty = {n4}
    MaxFaulty = 1
    Views = {0, 1}
    Sequences = {1}
    Digests = {d1, d2}
    NoDigest = NoDigest
    MaxVotes <- MCMaxVotes
    StakeHosts = {h1, h2}
    Subnets = {e1, e2}
    KycHashes = {k1, k2}
    TpmKeys = {t1, t2}
    Stakes = {10, 40, 80}
    NoHost = NoHost
    Escrows = {800, 8000}
    MaxCalls = 4
INVARIANTS ReputationSafety SecuritySafety StakesSafety
PROPERTIES WorseIsNeverMilder TakenBackForCause
CHECK_DEADLOCK FALSE
