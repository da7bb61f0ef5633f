SPECIFICATION TransactionsSpec
CONSTANTS
    N = 3
    OperatorWaits = TRUE
    MaxFaults = 3
    MaxSteps = 3
    MaxParticipants = 3
    Events = {e1, e2}
    Anonymous = {}
    Undecodable = {e2}
    Inboxes = {notify}
    Barriers = {billing}
    Workers = {w1, w2}
    MaxMishaps = 3
    Rows = {o1}
    Relays = {r1, r2}
    Subscribers = {ledger}
    Consumers = {c1}
INVARIANTS
    AllOrNothing
    SagaContract
    TccContract
    EffectsAreCounted
   
PROPERTIES
    TwoPhase
    PreparedIsResolved
    EventuallyConsumed
    ImplementsPromise
    EventuallyAppliedOrDead
CHECK_DEADLOCK FALSE
