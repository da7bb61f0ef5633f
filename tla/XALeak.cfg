SPECIFICATION Spec
CONSTANTS
    N = 2
    OperatorWaits = TRUE
    MaxFaults = 1
INVARIANT FailureRollsBackEverything
CHECK_DEADLOCK FALSE
