SPECIFICATION FetchBackfillSpec
CONSTANTS
    NoBlock = "none"
    Block <- ForkBlock
    Height <- ForkHeight
    Parent <- ForkParent
    BufferWindow = 2
    FinalityDepth = 1
    ForkIdModulus = 2
    SolidHead = {}
    MaxForkHistory = 1
    Capacity = 2
    CacheId <- ForkBlock
    CacheHeight = {1, 2, 3, 4}
    CacheValue <- Entry
    ChannelCapacity = 1
    MaxPending = 1
    VerifyPolicy = "Disabled"
    Recovered <- MCRecovered
    Malformed = "malformed"
    Witness <- MCWitness
    SrSets <- MCSrSets
    NoSrSet = NoSrSet
    HubCapacity = 1
    Retention = 0
    DiskFails = FALSE
    MaxRestarts = 0
    FetchHeight = {1, 2}
    StartBlock = {1}
    WalkLimit = 2
INVARIANT
    BackfillGapless
CHECK_DEADLOCK FALSE
