CONSTANTS
    None = None
    Logins = {l1, l2}
    Callbacks = {b1, b2}
    Exchanges = {x1}
    Operations = {"exchange"}
    Changes = {}
    Targets = {"active", "disabled"}
    Phases = {FALSE}
    LoginTTL = 0
    TTL = 2
    Idle = 1
    Absolute = 2
    MaxVersion = 3
    MaxGeneration = 0
SPECIFICATION Spec
INVARIANTS DisabledHasNoSession
