SPECIFICATION FairSpec
CONSTANTS
    p1 = p1
    p2 = p2
    Pages = {p1, p2}
    Mains = {f1, f2}
    Subs = {s1}
    FirstMain = f1
    Worlds = {w1}
    NoFrame = NoFrame
    NoCtx = NoCtx
    NoPage = NoPage
    TargetId = TargetId
    Placeholder = Placeholder
    Scenarios <- AllScenarios
    Backends = {"juggler", "bidi"}
    MaxDocs = 2
    MaxIds = 3
    MaxWorlds = 1
    MaxQueue = 0
INVARIANTS TypeOK FramesAgree LatestIsNewest OwnContext WorldsFollow
PROPERTY NavigatesForward CommandsEnd
CHECK_DEADLOCK FALSE
