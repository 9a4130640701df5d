SPECIFICATION Spec
CONSTANTS
    t1 = t1
    t2 = t2
    Txns = {t1, t2}
    Amount <- MCAmount
    Requests = {r1, r2, r3}
    Currencies = {usd, eur}
    Adjustment = 1
    Limits <- MCLimits
    InitBalance = 4
    InitUsage = 1
    Scenes <- MCScenes
    MaxFaults = 1
    NoKey = NoKey
    NoLimit = NoLimit
SYMMETRY RequestSymmetry
INVARIANTS
    TypeOK
    WalletExact
    MoneyExact
    CounterSound
    CounterExpires
    LimitHeld
CHECK_DEADLOCK FALSE
