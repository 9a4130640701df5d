SPECIFICATION Spec
CONSTANTS
    u1 = u1
    u2 = u2
    t1 = t1
    t2 = t2
    t3 = t3
    t4 = t4
    Users = {u1}
    Txns = {t2}
    Workers = {w1, w2}
    Owner <- MCOwner
    Amount <- MCAmount
    InitBalance <- MCInitBalance
    Unit = 2
    MaxRetries = 2
    Prefetch = 2
    WarmStart = FALSE
    LockExpires = TRUE
    BalanceQueries = TRUE
    FaultKinds = {"crash", "gateway_crash", "store", "resend", "drop", "full", "flush", "ttl"}
    MaxFaults = 3
    Nobody = Nobody
    NoKey = NoKey
CHECK_DEADLOCK FALSE
SYMMETRY WorkerSymmetry
INVARIANTS
    TypeOK
    Custody
    MessageAccounting
    ChargeDrift
