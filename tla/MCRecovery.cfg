CONSTANTS
    Messages = {1, 2}
    Workers = {w1, w2}
    MaxFaults = 2
    MaxOutages = 2
    MaxDials = 4
    MaxDrops = 3
    MaxRegisters = 2
    MaxLeases = 5
    MaxTroubles = 2
    MaxStates = 1
    MaxRegistrations = 2
    MaxUnreachable = 2
    Sessions = {a}
    channelBufSize = 1
    MaxConnects = 3
    TaskIDs = {x, y}
    Repeating = {x}
    MaxTime = 2
    MaxAdds = 2
    MaxStarts = 2
    MaxStops = 1
    Clients = {c1}
    MaxStreams = 2
    MaxEvents = 3
    MaxAutoEvents = 2
    BufferSize = 1
    ConnectionSize = 1
    maxEventLogSize = 2
    Publishers = {p, q}
    TrackIDs = {t1}
    MaxPublishes = 2
    MaxSubscribes = 2
    MaxUploads = 1
    MaxLosses = 1
    Watchers = {v1, v2}
    MaxChanges = 2
    MaxReadFaults = 1
    Readers = 2
    Checkers = {h1, h2}
    MaxChecks = 3
SPECIFICATION RecoverySpec
PROPERTIES ConsumersRecover RegistrationsSettle SessionsSettle DeadlinesAreKept StreamsSettle ConfigSettles
CHECK_DEADLOCK FALSE
