\* Two prompts of two turns, stops and resets in any order around them.
SPECIFICATION Spec
CONSTANTS
    MaxSends = 2
    MaxLocalTurns = 2
    MaxEvents = 2
    CallIds = {c1}
    MsgIds = {m1}
    ClientTools <- OneTool
    GuardedTools = {}
    ServerTools = {}
    EventKinds <- AllKinds
INVARIANTS
    SpinnerStolenOnlyByStaleRun
    NoLayoutFromBeforeReset
PROPERTIES
    AbortedRunOnlySettles
    EveryRunSettles
    ImplementsLifecycle
CHECK_DEADLOCK FALSE
