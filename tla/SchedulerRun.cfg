\* Two payouts, two gateways with one poll each under way, a cancel and an
\* update (or two of either), one fault of any kind.
SPECIFICATION LiveSpec
CONSTANTS
    p1 = p1
    p2 = p2
    g1 = g1
    g2 = g2
    r1 = r1
    r2 = r2
    none = none
    Payouts <- MCPayouts
    Gateways <- MCGateways
    Slots = {1}
    Requests <- MCRequests
    MaxTime = 2
    FaultKinds = {"crash", "stop", "store", "full"}
    MaxFaults = 1
    NoPayout = none
INVARIANTS
    OneExecution
    RecordTruth
PROPERTIES
    CancelledForGood
    EventuallyTakenUp
    EventuallyRecorded
CHECK_DEADLOCK FALSE
