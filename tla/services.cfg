SPECIFICATION SourcesSpec
CONSTANTS
    c1 = c1
    c2 = c2
    reliance = reliance
    Cids = {c1, c2}
    NoCid = NoCid
    Symbols = {reliance}
    Unlisted = Unlisted
    Signals <- BothSides
    DemoSignals <- DemoSell
    DemoQuantities = {2, 3}
    DemoFills = 3
    Quantities = {2}
    Price <- MarketPrice
    MaxNotional = 500
    StartModes = {TRUE, FALSE}
    MaxPolls = 2
    MaxToggles = 1
INVARIANTS FillIsBacked PaperStopsNextOrder BookWithinApprovals
PROPERTY QueueDrains
CHECK_DEADLOCK FALSE
