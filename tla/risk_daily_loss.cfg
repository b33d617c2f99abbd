SPECIFICATION Spec
CONSTANTS
    s1 = s1
    s2 = s2
    NoReason = NoReason
    Reasons = {"MaxDrawdown", "TraderRequest"}
    MaxEngagements = 2
    Symbols = {s1}
    Evaluators = {e1}
    Operators = {}
    SwitchUsers = {e1}
    BrokerIds = {b1}
    Signals <- OneSignal
    PnlInputs <- DeepSwings
    BookInputs = {}
    Expiries = {}
    RealizedInputs = {}
    AdaptiveRisks = {1}
    Policy = "Continue"
    Capital = 10
    MaxDailyLoss = 2
    MaxDrawdown = 5
    MaxPositionPerSymbol = 4
    MaxPositionPortfolio = 5
    MaxNotional = 8
    MaxExposurePerSymbol = 6
    MaxTradesPerSession = 9
    UpperBand = 2
    SessionEnd = 2
    MaxTime = 0
    MaxMints = 2
PROPERTY DailyLossBlocksSession
CHECK_DEADLOCK FALSE
