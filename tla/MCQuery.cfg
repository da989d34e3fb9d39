SPECIFICATION Spec
CONSTANTS
    QueryRange = 1
    MinHits = 3
    MinFiltered = 1
    PartMax = 4
    PartDivider = 2
    Second = 2
    MinDuration = 2
    TableSize = 4
    MaxBin = 16
    Latency = 3
    Step = 2
    RoundedBins = {2, 14}
    RegionBins = 6
    WindowBins = 5
    HopBins = 3
    None = None
    Worlds <- SmallWorlds
    Scripts <- SmallScripts
INVARIANTS
    TypeOK
    PrintsAreProbed
    CloseIsTogether
    HitsVoteOnce
    SpanIsCrosscheck
    DefaultIsAmongLines
    RegionsAreIndependent
PROPERTIES
    EveryStepIsProgress
