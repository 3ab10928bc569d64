\* A capability and an experience, two threads, four requests.
SPECIFICATION Spec
CONSTANTS
    Items = {"tool", "intake"}
    Experiences = {"intake"}
    Bodies = {"old", "new"}
    Threads = {t1, t2}
    None = None
    MaxRequests = 4
SYMMETRY Swap
INVARIANTS
    LogTellsTheRow
    OnlyTheLastIsActive
PROPERTIES
    NoLostUpdate
    PublishedAsReviewed
CHECK_DEADLOCK FALSE
