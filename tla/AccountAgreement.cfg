CONSTANTS
    None = None
    Confirmations = {}
    Requests = {r1}
    Comparisons = {c1}
    Pulls = {c1}
    Sessions = {s1}
    Factors = {f0}
    NoFactors = f0
    Operations = {"status"}
    Targets = {"active", "disabled"}
    Asked = {}
    Edits = {"forbid", "allow", "delete"}
    InFlight = 2
    Deadline = 1
    Timeout = 2
    MaxRequests = 3
    MaxEdits = 1
    MaxFaults = 1
    Writers = {r1, c1}
SPECIFICATION FairSpec
PROPERTIES Agreement OwnWriteIsNoConsoleChange OwnWriteIsNoRollback Promised
