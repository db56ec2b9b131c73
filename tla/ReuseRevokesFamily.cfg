SPECIFICATION AccessSpec
CONSTANTS
    AuthWorkers = {w1, w2}
    MaxTokens = 4
    Approvers = {a1, a2}
    LoginWorkers = {l1, l2}
    NoUser = NoUser
    MaxOtps = 2
    MaxOtpTries = 2
    Admins = {m1, m2, m3}
    RequiredApprovals = 3
    MaxTtl = 2
    Tolerance = 2
    MaxTime = 4
    Clients = {c1, c2}
    Limit = 1
    MaxMinutes = 1
    MaxRequests = 2
    Conns = {k1, k2, k3}
    NoConn = NoConn
    VettingWorkers = {k1, k2}
    Levels = {"silver", "gold"}
    MaxApplications = 2
    MaxAccounts = 1
    Talks = {s1, s2}
    Talkers = {k1, k2}
    Window = 3
    MaxClock = 6
    Offers <- MCOffers
    NoBench = NoBench
    Budgets = {8, 99}
    MaxOffers = 3
    TopN = 2
    Tenants = {u1}
    InrTenants = {u1}
    LaunchWorkers = {v1, v2}
    NoTenant = NoTenant
    HoldPrices = {1, 2}
    Balances = {1, 2}
    Vram = 1
    Needs = {1, 2}
    MaxRented = 2
    MaxEdits = 2
PROPERTY ReuseRevokesFamily
CHECK_DEADLOCK FALSE
