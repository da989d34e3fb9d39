SPECIFICATION Spec
CONSTANTS
    None = None
    Keys <- MCKeys
    ShardCount = 2
    ShardOf <- MCShardOf
    MaxTime = 9
    Batches <- MCBatches
    DurationFiles <- MCDurationFiles
    MaxId = 4
    MaxRequests = 3
INVARIANTS
    TypeOK
    PublishedIsComplete
    RollbackIsComplete
    ReaderSurvivesOnePublication
    DiskIsBounded
    LookupIsExact
    ForwardNeverLies
PROPERTIES
    ImplementsCatalog
\* A client may stop sending requests.
CHECK_DEADLOCK FALSE
