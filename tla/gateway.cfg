SPECIFICATION Spec
CONSTANTS
    Workers = {"w1", "w2", "w3"}
    Databases = {"d1", "d2"}
    Requests = {r1, r2}
    Names = {"n"}
    Configs <- AllConfigs
    Rank <- Ranks
    Points <- Configured
    Permits = 2
    Fresh = 1
    None = None
    MaxFaults = 1
INVARIANTS TypeOK SubmittedOnce PlacementStable

PROPERTIES ServiceIsFound
