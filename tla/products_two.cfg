\* Two concurrent requests of every kind by every user; no symmetry, for liveness.
SPECIFICATION FairSpec
CONSTANTS
    r1 = r1
    r2 = r2
    r3 = r3
    p1 = p1
    p2 = p2
    p3 = p3
    Requests = {r1, r2}
    Products = {p1, p2, p3}
    Seeded = Seeded
    None = None
    Users <- MCUsers
    Masters <- MCMasters
    Teams <- MCTeams
    TeamsOf <- MCTeamsOf
    Lower <- MCLower
    Names <- MCNames
    Texts <- MCTexts
    Schedules <- MCSchedules
    TableLists <- MCTableLists
    NewProducts <- MCNewProducts
    Patches <- MCPatches
    SeedProducts <- MCSeedProducts
    SeedRevisions <- MCSeedRevisions
INVARIANTS
    IInv
    ErrorLeavesNoTrace
PROPERTIES
    OnlyEditorsWrite
    ActsAsCatalog
    EveryTextChangeRecorded
    RestoreFromOwnHistory
    EveryRequestAnswered
