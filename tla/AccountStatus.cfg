CONSTANTS
    None = None
    Confirmations = {k}
    Requests = {r1, r2}
    Comparisons = {c1}
    Pulls = {c1}
    Sessions = {s1}
    Factors = {f0}
    NoFactors = f0
    Operations = {"status"}
    Targets = {"active", "disabled"}
    Asked = {}
    Edits = {"forbid", "allow", "delete", "remove"}
    InFlight = 2
    Deadline = 1
    Timeout = 2
    MaxRequests = 2
    MaxEdits = 1
    MaxFaults = 1
    Writers = {r1, r2, c1}
SPECIFICATION Spec
INVARIANTS TypeOK PublishedIsRow AskedOnThisRow EvidenceIsOfThisStatus DisablementHasIntent NoVerdictOnEnable
PROPERTIES NamesItsOwnChange IntentsConcludedOnce
SYMMETRY HandlerSymmetry
