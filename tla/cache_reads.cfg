\* Two reads in flight and a write here or in another process; no symmetry, for Converged.
SPECIFICATION FairSpec
CONSTANTS
    Processes = {a}
    Readers = {r1, r2}
    Writers = {w1}
    Pages = {k1, k2}
    Context = Context
    EmptyVersions <- MCEmptyVersions
    TTL = 1
    Timeout = 1
    Capacity = 1
    None = None
INVARIANTS
    IInv
    BoundedStaleness
PROPERTIES
    EvictionSound
    Converged
