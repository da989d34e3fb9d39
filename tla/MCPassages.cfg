SPECIFICATION Spec
CONSTANTS
    Worlds <- SmallWorlds
    Scripts <- SmallScripts
    Digest <- SmallDigest
    None = None
    MaxGap = 6
    MaxLockedGap = 9
    MaxJump = 4
    MaxLockedJump = 1
    MaxFactorJump = 6
    MaxLockedFactorJump = 2
    MaxHitGap = 2
    Containment = 80
    Dominance = 4
    Coverage = 90
    MaxEdgeDelta = 4
    MaxUnitDelta = 1
    Unit = 200
INVARIANTS
    TypeOK
    HitsCountOnce
    SupportHasNoHoles
    PrimariesAreUndominated
    AlternatesAreOwned
    DiscoveryIsPairs
