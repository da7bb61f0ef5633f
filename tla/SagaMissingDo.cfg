SPECIFICATION SagaSpec
CONSTANT MaxSteps = 2
INVARIANT FailureIsCompensated
CHECK_DEADLOCK FALSE
