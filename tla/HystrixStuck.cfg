SPECIFICATION HystrixFairSpec
CONSTANTS
    BucketCount = 2
    BucketTicks = 1
    Callers = {c1}
    SleepWindow = 1
    RequestVolumeThreshold = 1
    ErrorPercent = 50
    MaxResults = 2
PROPERTIES
    OpenEndsInTrial
