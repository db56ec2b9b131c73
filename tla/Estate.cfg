SPECIFICATION EstateSpec
CONSTANTS
    Hosts = {h1}
    BenchTypes = {t1, t2}
    FleetWorkers = {q1, q2}
    NoHost = NoHost
    NoModel = NoModel
    MaxBeats = 2
    Listings = {l1}
    MarketWorkers = {m1, m2}
    Syncs = {y1, y2}
    NoListing = NoListing
    HostReadable = TRUE
    Commands = {d1, d2}
    MaxKeys = 1
    MaxCopies = 2
    Guests = {g1, g2}
    NoGuest = NoGuest
    MaxTries = 2
    MaxDeaths = 1
    MaxVersion = 3
INVARIANTS SupplySafety AgentSafety
PROPERTIES SweepSparesSuspended SilentHostLeaves IndexCatchesUp
CHECK_DEADLOCK FALSE
