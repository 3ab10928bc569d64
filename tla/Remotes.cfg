\* Two loads each of two remotes beside a tool of the host, under every conflict policy.
SPECIFICATION Spec
CONSTANTS
    b1 = b1
    b2 = b2
    t1 = t1
    t2 = t2
    Remotes <- TwoRemotes
    Loads <- FourLoads
    RemoteOf <- FourRemotes
    Offers <- FourOffers
    Pinned <- NewVersion
    HostTools <- OneHostTool
    Policies <- AllPolicies
SYMMETRY Swap
INVARIANTS
    OnDisposeOnce
    NothingOutlivesItsLoad
    NamesakesCoexist
PROPERTIES
    ToolsLeaveWithTheirOwner
CHECK_DEADLOCK FALSE
