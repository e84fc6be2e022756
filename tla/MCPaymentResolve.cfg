SPECIFICATION HoldSpec
CONSTANTS
    a1 = a1
    a2 = a2
    m1 = m1
    m2 = m2
    h1 = h1
    t0 = t0
    k1 = k1
    k2 = k2
    k3 = k3
    k4 = k4
    k5 = k5
    Accounts = {a1, a2}
    Merchants = {m1}
    AuthorizationIds = {h1}
    TransactionIds = {t0, t1, t2}
    Keys = {k1, k2, k3, k4, k5}
    Amounts = {1}
    Balances = {0, 1, 2, 3, 4}
    Days = {0}
    OpeningFunds = 2
    Calls = {c1, c2, c3}
    Requests <- ResolveRequests
    Signups = {}
    InsertAttempts = 3
    MaxAttempts = 2
    StaleReads = FALSE
    Crashes = TRUE
    Contention = FALSE
    Sweeping = TRUE
    RecordsLapse = FALSE
SYMMETRY InterchangeableCalls
INVARIANTS
    ServiceTypeOK
    ConflictsAreTrue
    OneWinnerPerHold
    OwnWorkIsNoConflict
PROPERTIES
    FailuresHaveCauses
