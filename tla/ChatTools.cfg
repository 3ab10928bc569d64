\* One run, two turns of up to four events: every order of starting, ending and
\* answering client, guarded and server-side calls around text and widgets.
SPECIFICATION Spec
CONSTANTS
    MaxSends = 1
    MaxLocalTurns = 2
    MaxEvents = 4
    CallIds = {c1, c2}
    MsgIds = {m1}
    ClientTools <- TwoTools
    GuardedTools <- Guarded
    ServerTools <- Server
    EventKinds <- ToolKinds
SYMMETRY Ids
INVARIANTS
    AnswersAreEarned
PROPERTIES
    NextTurnIsAnswered
CHECK_DEADLOCK FALSE
