SPECIFICATION Spec
CONSTANTS
    NumSymbols = 1
    FillTasks = {w1}
    TickTasks = {w2}
    Fills <- OneSymbolFills
    Marks = {3, 6}
    BaseCapital = 10
    Throttle = 1
    MaxFills = 2
    MaxTime = 0
PROPERTY PeakIsMonotonic
CHECK_DEADLOCK FALSE
