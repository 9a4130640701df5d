SPECIFICATION Spec
CONSTANTS
    u1 = u1
    u2 = u2
    t1 = t1
    t2 = t2
    t3 = t3
    t4 = t4
    Users = {u1}
    Txns = {t1, t2}
    Workers = {w1, w2}
    Owner <- MCOwner
    Amount <- MCAmount
    InitBalance <- MCInitBalance
    Unit = 1
    MaxRetries = 1
    Prefetch = 2
    WarmStart = TRUE
    LockExpires = TRUE
    BalanceQueries = FALSE
    FaultKinds = {"crash", "gateway_crash"}
    MaxFaults = 3
    Nobody = Nobody
    NoKey = NoKey
CHECK_DEADLOCK FALSE
SYMMETRY WorkerSymmetry
INVARIANTS
    AckedIsPaid
    NoLostUpdate
PROPERTIES
    CompletedIsFinal
