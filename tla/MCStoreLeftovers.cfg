SPECIFICATION Spec
CONSTANTS
    None = None
    Keys <- MCKeys
    ShardCount = 2
    ShardOf <- MCShardOf
    MaxTime = 9
    Batches <- MCBatches
    DurationFiles <- MCDurationFiles
    MaxId = 4
    MaxRequests = 3
INVARIANT LeftoversAreHarmless
\* A client may stop sending requests.
CHECK_DEADLOCK FALSE
