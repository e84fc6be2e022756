SPECIFICATION TableSpec
CONSTANTS
    Accounts = {a1, a2}
    Merchants = {m1, m2}
    AuthorizationIds = {h1, h2}
    TransactionIds = {t1, t2, t3}
    Keys = {k1, k2}
    Amounts = {0, 1, 2}
    Balances = {0, 1, 2, 3, 4, 5, 6}
    Days = {0}
SYMMETRY Interchangeable
CHECK_DEADLOCK FALSE
INVARIANTS
    TypeOK
    HoldsBalance
    NoOverdraft
    BalancesBackedByEntries
    TransactionsBalance
    CaptureIsOneTransfer
    RecordsTellTheTruth
    OneRecordPerEffect
PROPERTIES
    HoldsResolveOnce
    EffectsAreRecorded
    KeepsThePromise
