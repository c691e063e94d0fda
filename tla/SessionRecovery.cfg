CONSTANTS
    None = None
    Logins = {l1, l2}
    Callbacks = {b1, b2}
    Exchanges = {x1}
    Operations = {"exchange"}
    Changes = {"forced"}
    Targets = {}
    Phases = {TRUE, FALSE}
    LoginTTL = 0
    TTL = 1
    Idle = 1
    Absolute = 1
    MaxVersion = 2
    MaxGeneration = 1
SPECIFICATION FairSpec
INVARIANTS NoneLeftBehind EndedOnce
PROPERTIES EndsReachTheEdge EndIsFinal Promised
