\* A save that read before another committed records the wrong value.
SPECIFICATION Spec
SYMMETRY RequestSymmetry
CONSTANTS
    r1 = r1
    r2 = r2
    r3 = r3
    p1 = p1
    p2 = p2
    p3 = p3
    Requests = {r1, r2}
    Products = {p1, p2, p3}
    Seeded = Seeded
    None = None
    Users <- MCUsers
    Masters <- MCMasters
    Teams <- MCTeams
    TeamsOf <- MCTeamsOf
    Lower <- MCLower
    Names <- MCNames
    Texts <- MCTexts
    Schedules <- MCSchedules
    TableLists <- MCTableLists
    NewProducts <- MCNewProducts
    Patches <- MCPatches
    SeedProducts <- MCSeedProducts
    SeedRevisions <- MCSeedRevisions
PROPERTIES
    HistoryIsComplete
