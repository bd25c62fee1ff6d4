SPECIFICATION Spec
CONSTANTS
    c1 = c1
    c2 = c2
    t1 = t1
    t2 = t2
    Conns = {c1, c2}
    Targets = {t1}
    NoConn = NoConn
    NoTarget = NoTarget
    Opener <- MadeByClients
    Commands = {"create"}
    BackendFails = TRUE
    Shutdown = TRUE
INVARIANT OwnerLive
PROPERTY LeaseSpec
CHECK_DEADLOCK FALSE
