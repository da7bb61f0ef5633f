SPECIFICATION SuiteSpec
CONSTANTS
    Waiters = {w1, w2}
    Cost = 4
    Rate = 2
    Burst = 8
    BucketCount = 3
    BucketTicks = 2
    MaxResults = 3
    Callers = {c1, c2}
    SresCallers = {c1, c2}
    SleepWindow = 2
    RequestVolumeThreshold = 2
    ErrorPercent = 50
    K = 2
    Latencies = {0, 8, 12, 80}
    MinRTT = 4
    MaxRTT = 64
    AlphaPercent = 50
    BetaPercent = 30
    WarmupSamples = 3
    MaxInflight = 2
    SecondTicks = 6
    RTTs = {1, 3}
    MinQPS = 1
    CpuPercent = 80
    MaxAttempts = 4
    Initial = 2
    Factor = 2
    Step = 1
    MaxDelay = 5
    MaxTotalWait = 9
    MaxCall = 2
    MaxLate = 1
INVARIANTS
    NoOversleep
    VegasContract
    RetryContract
PROPERTIES
    AdmissionsArePaidFor
    WaitersAreReleased
    HystrixTrials
    QuietIsForgotten
CHECK_DEADLOCK FALSE
