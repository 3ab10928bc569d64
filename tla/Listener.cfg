\* Two losses and two ends that come too late, at any moment.
SPECIFICATION ListenerSpec
CONSTANTS
    Clients = {c1, c2, c3, c4}
    NoClient = NoClient
    Delays = {2000, 4000, 8000, 16000, 30000}
    MaxBreaks = 2
    MaxLate = 2
INVARIANTS
    OneListener
PROPERTY ComesBack
CHECK_DEADLOCK FALSE
