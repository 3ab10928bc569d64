\* Four kinds, two edits, one fault.
SPECIFICATION Spec
CONSTANTS
    Kinds = {"validation", "form", "experience", "application"}
    FirstRound = {"validation"}
    None = None
    Partial = Partial
    MaxEdits = 2
    MaxFaults = 1
INVARIANTS
    QuietIsCurrent
    FormsHaveRules
PROPERTY EditsShow
CHECK_DEADLOCK FALSE
