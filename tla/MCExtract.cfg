CONSTANTS
    Files <- MCFiles
    PipeSize = 40
    Hop = 2
    AudioBlock = 4
    StreamCore = 16
    Support = 3
    BandCount <- MCBandCount
    NativeStep <- MCNativeStep
    FrequencyFilter = 3
    TimeFilter = 5
    MinTime = 1
    MaxTime = 2
    MinFrequency = 1
    MaxFrequency = 2
SPECIFICATION Spec
INVARIANTS
    TypeOK
    StreamIsWhole
    StreamIsBounded
    VerticalIsMaximum
PROPERTIES
    DecodeEnds
CHECK_DEADLOCK FALSE
