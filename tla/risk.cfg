SPECIFICATION InputsSpec
CONSTANTS
    s1 = s1
    s2 = s2
    NoReason = NoReason
    Reasons = {"MaxDrawdown", "TraderRequest"}
    MaxEngagements = 2
    Symbols = {s1, s2}
    Evaluators = {e1, e2}
    Operators = {o1}
    SwitchUsers = {e1, e2, o1}
    BrokerIds = {b1}
    Signals <- MixedSignals
    PnlInputs <- Swings
    BookInputs <- Holdings
    Expiries = {1, 2}
    RealizedInputs = {0, 2}
    AdaptiveRisks = {1, 9}
    Policy = "StopForSession"
    Capital = 10
    MaxDailyLoss = 5
    MaxDrawdown = 2
    MaxPositionPerSymbol = 4
    MaxPositionPortfolio = 5
    MaxNotional = 8
    MaxExposurePerSymbol = 6
    MaxTradesPerSession = 9
    UpperBand = 2
    SessionEnd = 2
    MaxTime = 2
    MaxMints = 2
INVARIANTS HaltIsFinal ReasonIsCause
PROPERTIES ApprovalFitsLimits CooldownHonoured TargetIsFinal
CHECK_DEADLOCK FALSE
