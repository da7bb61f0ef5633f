SPECIFICATION Spec
CONSTANTS
    Events = {e1}
    Relays = {r1, r2}
    BatchSize = 1
    MaxAttempts = 2
    Lease = 1
    SweepAfter = 0
    BackoffUnit = 1
    Lockings = {"rows"}
    MaxFaults = 0
PROPERTIES
    DoneStaysDone
