SPECIFICATION Spec
CONSTANTS
    Events = {e1, e2}
    Relays = {r1, r2}
    BatchSize = 2
    MaxAttempts = 2
    Lease = 0
    SweepAfter = 1
    BackoffUnit = 1
    Lockings = {"rows", "none"}
    MaxFaults = 1
INVARIANTS
    NoEventLost
    ExclusiveClaim
PROPERTIES
    SettledIsFinal
