SPECIFICATION FairStreamServiceSpec
CONSTANTS
    NoBlock = "none"
    Block <- SmallBlock
    Height <- SmallHeight
    Parent <- SmallParent
    BufferWindow = 3
    FinalityDepth = 1
    ForkIdModulus = 2
    SolidHead <- SmallSolidHead
    MaxForkHistory = 1
    Capacity = 3
    CacheId <- SmallBlock
    CacheHeight = {1, 2, 3, 4}
    CacheValue <- Entry
    ChannelCapacity = 1
    MaxPending = 2
    VerifyPolicy = "Lenient"
    Recovered <- MCRecovered
    Malformed = "malformed"
    Witness <- MCWitness
    SrSets <- MCSrSets
    NoSrSet = NoSrSet
INVARIANTS
    StreamIntact
    CacheIsChainSuffix
    HorizonClosed
PROPERTY
    TicksComplete
CHECK_DEADLOCK FALSE
