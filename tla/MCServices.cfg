CONSTANTS
    Topics = {t1}
    None = None
    Registrars = {g1}
    MaxFailures = 1
    MaxCalls = 3
    CachePublishers = {c1, c2, c3}
    MaxSendFaults = 3
    Requests = {q1, q2}
    MaxReplies = 2
    Publishers = {p1, p2}
    MaxFaults = 1
    MaxRegisters = 3
    Handled = {h1, h2}
    MaxAttempts = 2
    MaxChain = 2
    MaxStarts = 2
    MaxStops = 1
    MaxServeFaults = 1
    Clients = {s1, s2}
    MaxStreams = 2
    MaxEvents = 2
    MaxAutoEvents = 1
    BufferSize = 1
    ConnectionSize = 1
    maxEventLogSize = 1
    Writers = {w1, w2}
    BatchSize = 2
    MaxLines = 4
    MaxOutages = 1
SPECIFICATION ServicesSpec
INVARIANTS ConsumersAreKnown OneProducerPerTopic MessagesArriveWhole ServersObey
    RequestsAreServed LinesAreAccountedFor
CHECK_DEADLOCK FALSE
