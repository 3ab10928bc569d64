\* A tool handler that returns after reset() brings the old transcript back.
SPECIFICATION Spec
CONSTANTS
    MaxSends = 2
    MaxLocalTurns = 2
    MaxEvents = 2
    CallIds = {c1}
    MsgIds = {}
    ClientTools <- OneTool
    GuardedTools = {}
    ServerTools = {}
    EventKinds <- LateKinds
INVARIANTS
    ResetClearsTranscript
CHECK_DEADLOCK FALSE
