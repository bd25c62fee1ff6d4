SPECIFICATION FairSpec
CONSTANTS
    c1 = c1
    c2 = c2
    t1 = t1
    t2 = t2
    Conns = {c1}
    Targets = {t1, t2}
    NoConn = NoConn
    NoTarget = NoTarget
    Opener <- PopupOfT1
    Commands = {"create", "close", "autoAttachOn"}
    BackendFails = FALSE
    Shutdown = FALSE
PROPERTY ClosingCompletes
PROPERTY ReleasedOnDisconnect
PROPERTY OwnedIsAttached
CHECK_DEADLOCK FALSE
