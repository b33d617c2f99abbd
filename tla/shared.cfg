SPECIFICATION SharedSpec
CONSTANTS
\* PositionEngine
    NumSymbols = 2
    FillTasks = {w1}
    TickTasks = {w2}
    Fills <- TwoSymbolFills
    Marks = {3}
    BaseCapital = 10
    Throttle = 1
    MaxFills = 3
    MaxTime = 1
\* UiGateway
    Conns = {c1, c2}
    Wanted = {"signals", "alerts"}
    Topics = {t1}
    Subjects = {"sig.emitted", "ai.rank", "risk.killswitch.activated"}
    Rankers = {s1, s2}
    Shadowed = {s2}
    Ttl = 0
    JoinCapacity = 2
    AlertCapacity = 1
    BroadcastDepth = 1
    MaxMessages = 3
    MaxRequests = 2
\* BrokerRouter
    Callers = {c1, c2}
    WindowSize = 2
    MinSamples = 2
    ErrorBps = 6000
    LatencyLimit = 2
    Latencies = {0, 2}
    MaxRecords = 5
INVARIANTS
    CashConserved
    AggregateIsCurrent
    RingHoldsLastOutcomes
PROPERTY SignalsNotHidden
CHECK_DEADLOCK FALSE
