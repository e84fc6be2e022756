SPECIFICATION FundedSweepSpec
CONSTANTS
    a1 = a1
    m1 = m1
    t0 = t0
    Accounts = {a1}
    Merchants = {m1}
    AuthorizationIds = {h1, h2}
    TransactionIds = {t0, t1}
    Keys = {k1}
    Amounts = {1}
    Balances = {2}
    Days = {0, 7, 8}
    Sweepers = {s1}
    Instants = {1, 14, 16}
    TicksPerDay = 2
    CallTicks = 1
    MaxFaults = 1
PROPERTIES
    OverdueHoldsAreReleased
