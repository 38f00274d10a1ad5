\* Three concurrent requests, of fewer kinds.
SPECIFICATION Spec
SYMMETRY RequestSymmetry
CONSTANTS
    r1 = r1
    r2 = r2
    r3 = r3
    p1 = p1
    p2 = p2
    p3 = p3
    Requests = {r1, r2, r3}
    Products = {p1, p2, p3}
    Seeded = Seeded
    None = None
    Users <- FewUsers
    Masters = {}
    Teams <- MCTeams
    TeamsOf <- FewTeamsOf
    Lower <- MCLower
    Names <- MCNames
    Texts <- MCTexts
    Schedules <- MCSchedules
    TableLists <- FewTableLists
    NewProducts <- FewNewProducts
    Patches <- FewPatches
    SeedProducts <- MCSeedProducts
    SeedRevisions <- FewSeedRevisions
INVARIANTS
    UniqueNames
    RevisionsHaveProduct
    DeadlockOnlyAmongRenames
