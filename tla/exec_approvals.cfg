SPECIFICATION Spec
CONSTANTS
    c1 = c1
    c2 = c2
    Cids = {c1, c2}
    Bodies <- AllBodies
    Minted <- SignedBodies
    EngineKey = "risk"
    Keys = {"risk", "other"}
    Callers = {t1, t2}
    FillTasks = {}
    CancelTasks = {}
    MaxAttempts = 2
    WindowSize = 2
    MinSamples = 1
    ErrorBps = 5000
    LatencyLimit = 1000
    Latencies = {0}
    MaxRecords = 4
INVARIANTS ApprovedOrdersOnly OneSubmitPerApproval OkIsTracked OneEventPerSwitch
CHECK_DEADLOCK FALSE
