\* Two replicas with two LISTEN clients each, one write, two fetches at once, any one fault.
SPECIFICATION Spec
CONSTANTS
    Replicas = {r1, r2}
    PgClients = {c1, c2}
    MaxWrites = 1
    MaxLosses = 1
    MaxFetches = 2
    BaseInterval = 1
INVARIANTS
    EmittedOnce
    QuietMeansHeard
    NeverClosesAgain
PROPERTY CatchesUp
CHECK_DEADLOCK FALSE
