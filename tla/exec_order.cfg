SPECIFICATION FairSpec
CONSTANTS
    c1 = c1
    c2 = c2
    Cids = {c1}
    Bodies <- SingleOrder
    Minted <- SingleOrder
    EngineKey = "risk"
    Keys = {"risk"}
    Callers = {t1, t2}
    FillTasks = {f1}
    CancelTasks = {k1}
    MaxAttempts = 2
    WindowSize = 2
    MinSamples = 1
    ErrorBps = 5000
    LatencyLimit = 1000
    Latencies = {0}
    MaxRecords = 4
INVARIANTS NoPhantomFill FillsDeliveredOnce
PROPERTIES ImplementsOrderSpec SubmitReturns
CHECK_DEADLOCK FALSE
