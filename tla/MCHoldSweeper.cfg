SPECIFICATION FundedSweepSpec
CONSTANTS
    a1 = a1
    m1 = m1
    t0 = t0
    Accounts = {a1}
    Merchants = {m1}
    AuthorizationIds = {h1, h2}
    TransactionIds = {t0, t1}
    Keys = {k1}
    Amounts = {1}
    Balances = {0}
    Days = {0, 1, 6, 7}
    Sweepers = {s1, s2}
    Instants = {1, 2, 13, 14}
    TicksPerDay = 2
    CallTicks = 1
    MaxFaults = 0
SYMMETRY Interchangeable
INVARIANTS
    SweepTypeOK
    HoldsBalance
PROPERTIES
    HoldsLiveSixDays
    SweepLeavesNothingDue
