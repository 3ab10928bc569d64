\* Four overlapping creations, edits, transitions and deletions, from an empty catalog.
SPECIFICATION Spec
CONSTANTS
    t1 = t1
    t2 = t2
    t3 = t3
    t4 = t4
    portal = portal
    intake = intake
    Txns <- Four
    Experiences <- Both
    Seeded = {}
    Ops = {"create", "patch", "emptyPatch", "rollback", "submit", "approve", "revoke", "deprecate", "delete"}
    NewStates = {"draft", "approved"}
SYMMETRY Symmetry
INVARIANTS
    AuditChainIntact
    NoAppendFails
    VersionsFollowRows
PROPERTIES
    TombstonesFrozen
    StatesMoveLegally
CHECK_DEADLOCK FALSE
