SPECIFICATION LiveSpec
CONSTANTS
    u1 = u1
    u2 = u2
    t1 = t1
    t2 = t2
    t3 = t3
    t4 = t4
    Users = {u1, u2}
    Txns = {t1, t2, t4}
    Workers = {w1, w2}
    Owner <- MCOwner
    Amount <- MCAmount
    InitBalance <- MCInitBalance
    Unit = 1
    MaxRetries = 1
    Prefetch = 2
    WarmStart = FALSE
    LockExpires = FALSE
    BalanceQueries = FALSE
    FaultKinds = {}
    MaxFaults = 0
    Nobody = Nobody
    NoKey = NoKey
CHECK_DEADLOCK FALSE
INVARIANTS
    OneAtATime
    SnapshotExact
PROPERTIES
    ImplementsLedger
    EventuallyPaid
