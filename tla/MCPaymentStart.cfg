SPECIFICATION ServiceSpec
CONSTANTS
    a1 = a1
    a2 = a2
    m1 = m1
    m2 = m2
    h1 = h1
    t0 = t0
    k1 = k1
    k2 = k2
    k3 = k3
    k4 = k4
    k5 = k5
    Accounts = {a1}
    Merchants = {m1}
    AuthorizationIds = {h1}
    TransactionIds = {t1, t2}
    Keys = {k1, k2, k3, k4}
    Amounts = {1}
    Balances = {0, 1}
    Days = {0}
    OpeningFunds = 2
    Calls = {c1, c2, c3, c4}
    Requests <- StartRequests
    Signups = {s1}
    InsertAttempts = 1
    MaxAttempts = 1
    StaleReads = TRUE
    Crashes = FALSE
    Contention = FALSE
    Sweeping = TRUE
    RecordsLapse = FALSE
SYMMETRY InterchangeableCalls
PROPERTIES
    TableSpec
