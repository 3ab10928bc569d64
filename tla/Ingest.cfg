\* Two ingests of one seeded remote in two versions, two deletions, one trouble.
SPECIFICATION Spec
CONSTANTS
    Remotes = {"kendo"}
    Seeds = {"kendo"}
    Versions <- TwoVersions
    Incompatible = {}
    Components = {"button", "grid"}
    Offers <- TwoOffers
    Requests <- ThreeRequests
    Jobs = {1, 2}
    Deletions = {1, 2}
    None = None
    Burned = Burned
    MaxTroubles = 1
INVARIANTS
    
    DeletedIsGone
PROPERTY JobsEnd
CHECK_DEADLOCK FALSE
