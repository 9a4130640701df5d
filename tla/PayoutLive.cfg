SPECIFICATION LiveSpec
CONSTANTS
    u1 = u1
    u2 = u2
    t1 = t1
    t2 = t2
    t3 = t3
    t4 = t4
    Users = {u1}
    Txns = {t1, t2}
    Workers = {w1}
    Owner <- MCOwner
    Amount <- MCAmount
    InitBalance <- MCInitBalance
    Unit = 1
    MaxRetries = 1
    Prefetch = 2
    WarmStart = FALSE
    LockExpires = TRUE
    BalanceQueries = FALSE
    FaultKinds = {"crash", "gateway_crash", "store", "full", "ttl"}
    MaxFaults = 1
    Nobody = Nobody
    NoKey = NoKey
CHECK_DEADLOCK FALSE
PROPERTIES
    EventuallySettled
