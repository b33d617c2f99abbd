SPECIFICATION Spec
CONSTANTS
    c1 = c1
    c2 = c2
    reliance = reliance
    Cids = {c1, c2}
    NoCid = NoCid
    Symbols = {reliance}
    Unlisted = Unlisted
    Signals <- BothSides
    DemoSignals = {}
    DemoQuantities = {2}
    DemoFills = 2
    Quantities = {2}
    Price <- MarketPrice
    MaxNotional = 500
    StartModes = {FALSE}
    MaxPolls = 2
    MaxToggles = 0
INVARIANT BookMatchesFills
CHECK_DEADLOCK FALSE
