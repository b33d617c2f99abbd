SPECIFICATION Spec
CONSTANTS
    c1 = c1
    c2 = c2
    Cids = {c1}
    Bodies <- SingleOrder
    Minted <- SingleOrder
    EngineKey = "risk"
    Keys = {"risk"}
    Callers = {t1}
    FillTasks = {f1, f2}
    CancelTasks = {}
    MaxAttempts = 1
    WindowSize = 2
    MinSamples = 1
    ErrorBps = 5000
    LatencyLimit = 1000
    Latencies = {0}
    MaxRecords = 4
INVARIANT FillsDeliveredOnce
CHECK_DEADLOCK FALSE
