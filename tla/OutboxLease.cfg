SPECIFICATION Spec
CONSTANTS
    Events = {e1, e2}
    Relays = {r1, r2}
    BatchSize = 2
    MaxAttempts = 2
    Lease = 1
    SweepAfter = 0
    BackoffUnit = 1
    Lockings = {"rows"}
    MaxFaults = 1
INVARIANTS
    PublishedOnlyIfCommitted
    NoEventLost
    DeadOnlyAfterMaxAttempts
