CONSTANTS
    Main = m
    Others = {o}
    Walker = walker
    Guests = {g}
    RowCount = 3
    Sizes = {0, 1, 5}
    MaxLimit = 2
    DefaultLimit = 2
    MaxRequests = 4
    MaxRotations = 1
    MaxRivalWrites = 1
    MaxBreaks = 1
    PageSize = 1
    NoPagingMaxLimit = 2
    Callers = {c1, c2}
    StoreCallers = {c1, c2}
    Viewers = {v1, v2}
    MaxWrites = 2
    MaxFaults = 1
    MaxCacheFaults = 1
    MaxSendFaults = 1
    StoreKeys = {k1, k2}
    Ttls = {1, 2}
    MaxTime = 4
    MaxCalls = 2
    Documents = {1, 2, 3}
    MaxBatchSize = 2
    MaxItems = 2
    Runners = {t1, t2}
    Conns = {x1, x2}
    MaxRuns = 3
    None = None
    InsertedRows = {a, b, c}
    MalformedRows = {c}
    BatchSize = 2
    MaxAdds = 2
    Writers = {w1, w2}
    MaxChanges = 2
SPECIFICATION DataSpec
INVARIANTS QueriesMeanWhatTheySay QuietCallsAgree CallsAreWhole CachesKeepTheirWord
    DecisionsAreConsistent
PROPERTY TenantRowsKept
CHECK_DEADLOCK FALSE
