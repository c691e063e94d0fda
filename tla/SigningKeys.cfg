CONSTANTS
    None = None
    Members = {m1, m2}
    Keys = {k1, k2, k3}
    First = k1
    Wait = 3
    TTL = 2
    Refresh = 2
SPECIFICATION Spec
INVARIANTS TypeOK FetchedCoversSigned SignedIsKnown
SYMMETRY AlikeSymmetry
