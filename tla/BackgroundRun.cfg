SPECIFICATION BackgroundSpec
CONSTANTS
    Executions = {"e1"}
    Jobs = {1, 2}
    WorkflowRequests = {1, 2, 3}
    Graphs <- MCGraphs
    WorkflowPrefetch = 1
    MaxRetries = 1
    MaxMishaps = 1
    NoNode = NoNode
    Deliveries = {1, 2}
    Urls = {"u1", "u2"}
    EventNames = {"payout.completed"}
    TestEvent = "webhook.test"
    MaxAttempts = 2
    MaxHookEdits = 1
    MaxHookFaults = 1
    ProcessKinds = {"gateway", "payoutWorker", "workflowWorker"}
    MaxReconnectAttempts = 2
    Signals = {1, 2}
    MaxBrokerDrops = 2
    MaxLifecycleFaults = 1
CHECK_DEADLOCK FALSE
INVARIANTS
    OneRunEach
    ExecutionTruth
    HookFresh
    HookAccounts
PROPERTIES
    RunEnds
    DeliverySettles
    ReconnectAlive
    ShutdownEnds
