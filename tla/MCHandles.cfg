SPECIFICATION FairSpec
CONSTANTS
    p1 = p1
    p2 = p2
    Pages = {p1, p2}
    Tasks = {1, 2}
    NoPage = NoPage
    Scenarios <- AllScenarios
    MaxRuns = 5
    MaxObjects = 2
    MaxDialogs = 2
INVARIANTS TypeOK  DialogKnown CleanedUp
PROPERTIES SelectorForItsFunction CommandsAnswered
CHECK_DEADLOCK FALSE
