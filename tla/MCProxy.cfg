SPECIFICATION FairSpec
CONSTANTS
    c1 = c1
    c2 = c2
    Clients = {c1, c2}
    NoClient = NoClient
    Scenarios <- AllScenarios
    MaxCommands = 2
    MaxEvents = 2
INVARIANTS TypeOK HookOnce BrowserStopped ReplayServes
PROPERTY ProgramEnds
CHECK_DEADLOCK FALSE
