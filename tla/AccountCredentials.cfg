CONSTANTS
    None = None
    Confirmations = {}
    Requests = {r1, r2}
    Comparisons = {c1, c2}
    Pulls = {c1}
    Sessions = {s1}
    Factors = {f0, f1}
    NoFactors = f0
    Operations = {"logout", "reset"}
    Targets = {"active", "disabled"}
    Asked = {}
    Edits = {"password", "factors", "forbid"}
    InFlight = 1
    Deadline = 0
    Timeout = 0
    MaxRequests = 2
    MaxEdits = 2
    MaxFaults = 0
    Writers = {r1, r2, c1, c2}
SPECIFICATION Spec
INVARIANTS NeverAMissedChange PublishedIsRow
SYMMETRY HandlerSymmetry
