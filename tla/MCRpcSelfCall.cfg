SPECIFICATION Spec
CONSTANTS
    g1 = g1
    g2 = g2
    Goroutines = {g1, g2}
    Loop = Loop
    LoopCalls = TRUE
    MaxCalls = 3
    MaxEvents = 1
INVARIANT LoopNotBehindItself
CHECK_DEADLOCK FALSE
