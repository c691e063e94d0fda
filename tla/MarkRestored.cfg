CONSTANTS
    None = None
    Confirmations = {k1}
    Writers = {w1, w2}
    Factors = {f0}
    NoFactors = f0
    Asked = {"compromised"}
    MaxVersion = 4
SPECIFICATION Spec
INVARIANT MarkRestored
