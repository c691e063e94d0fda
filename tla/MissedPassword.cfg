CONSTANTS
    None = None
    Confirmations = {}
    Requests = {r1}
    Comparisons = {c1}
    Pulls = {c1}
    Sessions = {s1}
    Factors = {f0}
    NoFactors = f0
    Operations = {"password"}
    Targets = {"active", "disabled"}
    Asked = {}
    Edits = {"password"}
    InFlight = 2
    Deadline = 1
    Timeout = 2
    MaxRequests = 1
    MaxEdits = 1
    MaxFaults = 0
    Writers = {r1, c1}
SPECIFICATION Spec
INVARIANTS NeverAMissedChange
