SPECIFICATION FairSpec
CONSTANTS
    c1 = c1
    c2 = c2
    s1 = s1
    s2 = s2
    default = default
    all = all
    none = none
    NoPatterns = NoPatterns
    NoSession = NoSession
    NoRequest = NoRequest
    Conns = {c1}
    Sessions = {s1, s2}
    Requests = {r1}
    Contexts = {default}
    DefaultContext = default
    PatternSets = {all, none}
    Owner <- OneClient
    Context <- Together
    Origin <- FromFirst
    Matching <- Selecting
    Older = TRUE
    BackendFails = TRUE
INVARIANTS TypeOK AnswerableWhilePaused OnlyEnabledArePaused SoleClientIntercepts
PROPERTY HeldIsAnswered
CHECK_DEADLOCK FALSE
