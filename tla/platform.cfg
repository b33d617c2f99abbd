SPECIFICATION PlatformSpec
CONSTANTS
\* Supervisor
    Feeds = {f1}
    Apis = {a1}
    Mitigated = {a1}
    Primary = p
    Backup = b
    OtherBroker = o
    SpikeNs = 2
    MaxDelay = 3
    ChannelDepth = 1
    MaxReports = 3
\* Replay
    Kinds = {"tick"}
    RedisAttached = TRUE
    MaxSegmentBytes = 2
    FrameSizes = {1}
    Gaps = {2}
    Divisors = {0, 1}
    MaxAppends = 3
    MaxStarts = 2
\* WarmCache
    Trades = {"c1", "c2", "c3"}
    WSymbols = {1, 2, 3}
    Regimes = {"Panic", "Odd"}
    Scores = {70, 150}
    ProducerStamps = {0, 9}
    LruSize = 2
    Staleness = 1
    MaxTracked = 2
    MaxClock = 3
    MaxAiEvents = 3
\* SimulatedBroker
    SimSymbols = {"x"}
    SimPrices = {1, 2}
    SimQtys = {1, 3}
    MaxSimOrders = 2
    MaxSeeds = 1
\* Bus
    Args = {"a"}
    Subscribers = {b1}
    Families <- AllFamilies
    GroupMembers = {g1, g2}
    MaxMessages = 1
    MaxEntries = 2
    MaxBatch = 2
    MaxCrashes = 1
    Payloads = {TRUE, FALSE}
\* UpstoxFeed
    Instruments = {"i1"}
    Registered = {"i1"}
    Underlyings <- TwoUnderlyings
    Expiries = {1, 2}
    Strikes = {1, 4}
    Spots = {0, 3}
    KeepStrikes = 1
    DownAfter = 3
    MaxFeedErrors = 4
    MaxDay = 2
\* Signals
    Snapshots <- SomeSnapshots
    PrevDays <- SomePrevDays
    SignalConfigs <- SomeConfigs
    WarFloors = {550}
    OiExpansion = "none"
    MaxSnapshots = 1
    MaxWarEvents = 2
\* Backtest
    BtSymbols = {"n"}
    BtPrices = {4, 10, 22}
    BtAtr = 2
    BtQty = 1
    BtCosts = 1
    BreakerOff = FALSE
    MaxTrades = 4
    MaxTickNo = 5
    MaxBtDay = 0
\* Features
    FeatSymbols = {"n"}
    FeatTicks <- SomeTicks
    Pressures = {500}
    AtrWindow = 2
    MomentumWindow = 3
    VolWindow = 2
    CompressionWindow = 2
    DonchianWindow = 2
    SlopeLookback = 2
    RsiWindow = 2
    AdxWindow = 1
    SweepLookahead = 1
    EmaFast = 1
    EmaSlow = 2
    EmaTrend = 3
    DeltaWindow = 2
    DeltaCapacity = 2
    TickGaps = {1, 3}
    MaxFeatTicks = 3
    MaxResets = 1
\* Orderflow
    BookUpdates <- SomeBooks
    FlowPrices = {2}
    FlowQtys = {2}
    MaxLevels = 2
    BucketNs = 1
    Buckets = 2
    GapTicks = 3
    SpoofMultiple = 1
    SpoofWindow = 1
    MedianWindow = 2
    PendingCapacity = 2
    MaxEvents = 4
    MaxFlowTime = 3
    MaxFlowTicks = 3
    MaxBooks = 3
\* LiveBrokers
    LiveCallers = {k1, k2}
    Intents <- SomeIntents
    Changes <- SomeChanges
    MaxCalls = 2
\* RiskRestart
    MinuteSlots = 1
    HourSlots = 3
    SessionSlots = 4
    TradesPerMinute = 2
    TradesPerHour = 3
    TradesPerSession = 4
    MinuteLength = 0
    HourLength = 1
    CoolSymbols = {x1}
    MaxWall = 3
    MaxRestarts = 1
\* DemoSynth
    RealSubjects = {"md.tick", "exec.fill"}
    RealPrices = {8}
    SynthPrices = {11}
    AnchorPrice = 10
    SuppressionWindow = 1
    BusCapacity = 1
    MaxOnWire = 1
    MaxSignals = 1
    MaxSynthTime = 1
INVARIANTS
    PublishedIsDurable
    NothingSkipped
    QueueNamesTheMap
    
    AnnouncedState
    SinksHoldPrefixes
    DrawdownIsLargestFall
    IncrementalIsBatch
    VolumeNotForgotten
    CodedRefusalCloses
    CapsAreExact
    SilencedByRealOnly
PROPERTIES
    BestPriceFirst
    PlaybackIsRecorded
CHECK_DEADLOCK FALSE
