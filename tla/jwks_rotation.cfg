\* Two requests at a time while the provider replaces its key.
SPECIFICATION Spec
SYMMETRY RequestSymmetry
CONSTANTS
    k1 = k1
    k2 = k2
    Requests = {r1, r2}
    Main = Main
    Kids = {k1, k2}
    Published <- MCPublished
    TTL = 2
    Cooldown = 2
    Timeout = 1
    None = None
INVARIANTS
    IInv
PROPERTIES
    AcceptedKeysAreRecent
    RotationIsSeen
