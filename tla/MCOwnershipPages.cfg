SPECIFICATION Spec
CONSTANTS
    c1 = c1
    c2 = c2
    t1 = t1
    t2 = t2
    Conns = {c1}
    Targets = {t1, t2}
    NoConn = NoConn
    NoTarget = NoTarget
    Opener <- PopupOfT1
    Commands = {"create", "close", "attachTo", "autoAttachOn", "autoAttachOff", "discoverOn", "discoverOff"}
    BackendFails = TRUE
    Shutdown = FALSE
INVARIANT TypeOK
INVARIANT ClosingHasCloser
INVARIANT NothingLeft
INVARIANT AnnouncedInOrder
CHECK_DEADLOCK FALSE
