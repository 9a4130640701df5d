SPECIFICATION Spec
CONSTANTS
    u1 = u1
    u2 = u2
    t1 = t1
    t2 = t2
    t3 = t3
    t4 = t4
    Users = {u1}
    Txns = {t1}
    Workers = {w1}
    Owner <- MCOwner
    Amount <- MCAmount
    InitBalance <- MCInitBalance
    Unit = 1
    MaxRetries = 1
    Prefetch = 1
    WarmStart = FALSE
    LockExpires = FALSE
    BalanceQueries = TRUE
    FaultKinds = {}
    MaxFaults = 0
    Nobody = Nobody
    NoKey = NoKey
CHECK_DEADLOCK FALSE
INVARIANTS
    NoLostUpdate
