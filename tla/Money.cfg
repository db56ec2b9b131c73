SPECIFICATION MoneySpec
CONSTANTS
    StripePays = {p1}
    UpiPays = {u1}
    WalletWorkers = {w1, w2}
    NoPay = NoPay
    WalletColumns = TRUE
    MaxRows = 4
    Earnings = {e1, e2}
    Events = {v1, v2, v3}
    NamedEvents = {v1, v2}
    FinanceWorkers = {f1, f2}
    MinThreshold = 2
    MaxPayouts = 2
    MaxAttempts = 2
    MaxPostings = 2
    Billed = {b1, b2}
    InvoiceWorkers = {d1, d2}
    NoEntry = NoEntry
    MaxRetries = 2
    Notices = {n1}
    PrefClients = {c1, c2}
    HasBuilders = TRUE
    MaxDispatches = 2
    DebitChains = {g1, g2}
    TickSeconds = 2
    MaxDebits = 3
    MaxTicks = 2
    MaxRepeats = 1
INVARIANTS WalletSafety BalanceAddsUp FinanceSafety TasksSafety
PROPERTIES OptOutIsKept ImplementsSeries
CHECK_DEADLOCK FALSE
