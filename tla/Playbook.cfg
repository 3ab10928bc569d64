\* Every playbook of four steps, each guarded or not, tolerant or not.
SPECIFICATION Spec
CONSTANT N = 4
INVARIANTS
    StepsKeepTheirOrder
    GuardedStepsWereApproved
PROPERTIES
    NothingStartsAfterCancel
    CancelEnds
CHECK_DEADLOCK FALSE
