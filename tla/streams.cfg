SPECIFICATION StreamsSpec
CONSTANTS
\* Session
    DayLength = 7
    WarWindow <- WarHours
    SessionWindow <- SessionHours
    MaxLag = 1
    MaxExits = 1
\* MarketData
    Sources = {s1, s2}
    MdSymbols = {"a", "b"}
    Prices = {2}
    SectorOf <- OneSector
    PrevClose <- OneClose
    Receivers = {r1}
    ChannelCapacity = 1
    VolatilityWindow = 1
    BatchTicks = 2
    MaxTicks = 2
    MaxAttempts = 2
    Flaky = {s1}
\* UiGateway
    Conns = {c1, c2}
    Wanted = {"signals"}
    Topics = {}
    Subjects = {"sig.emitted"}
    Rankers = {s1}
    Shadowed = {}
    Ttl = 0
    JoinCapacity = 2
    AlertCapacity = 1
    BroadcastDepth = 1
    MaxMessages = 4
    MaxRequests = 2
INVARIANTS
    OneIdPerSymbol
PROPERTIES
    WindowCloses
    FeedRecovers
    PendingSignalsLeave
CHECK_DEADLOCK FALSE
