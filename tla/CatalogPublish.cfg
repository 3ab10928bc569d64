\* Publishing, unpublishing and key rotation against edits and revocation.
SPECIFICATION Spec
CONSTANTS
    t1 = t1
    t2 = t2
    t3 = t3
    t4 = t4
    portal = portal
    intake = intake
    Txns <- Three
    Experiences <- One
    Seeded <- One
    Ops = {"publish", "unpublish", "rotate", "patch", "emptyPatch", "revoke"}
    NewStates = {"draft", "approved"}
INVARIANTS
    OneActivePublication
    PublishedWasApproved
PROPERTIES
    ImplementsGoverned
    EveryRequestEnds
CHECK_DEADLOCK FALSE
