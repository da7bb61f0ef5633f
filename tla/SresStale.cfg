SPECIFICATION SresFairSpec
CONSTANTS
    BucketCount = 3
    BucketTicks = 2
    SresCallers = {c1}
    K = 2
    MaxResults = 1
PROPERTIES
    RejectionEnds
