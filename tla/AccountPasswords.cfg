CONSTANTS
    None = None
    Confirmations = {}
    Requests = {r1}
    Comparisons = {c1, c2}
    Pulls = {c2}
    Sessions = {s1, s2}
    Factors = {f0}
    NoFactors = f0
    Operations = {"logout", "reset", "password"}
    Targets = {"active", "disabled"}
    Asked = {}
    Edits = {}
    InFlight = 1
    Deadline = 0
    Timeout = 0
    MaxRequests = 2
    MaxEdits = 0
    MaxFaults = 1
    Writers = {r1, c1, c2}
SPECIFICATION FairSpec
INVARIANTS NeverAMissedChange
PROPERTIES PasswordChangeCounted IntentsConcludedOnce
