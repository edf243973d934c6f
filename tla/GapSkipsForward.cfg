SPECIFICATION ReachableNodeSpec
CONSTANTS
    NoBlock = "none"
    Block <- LineBlock
    Height <- LineHeight
    Parent <- LineParent
    BufferWindow = 2
    FinalityDepth = 1
    ForkIdModulus = 2
    SolidHead <- LineSolidHead
    MaxForkHistory = 1
    Capacity = 3
    CacheId <- LineBlock
    CacheHeight = {1, 2, 3, 4}
    CacheValue <- Entry
    ChannelCapacity = 1
    MaxPending = 1
    VerifyPolicy = "Disabled"
    Recovered <- MCRecovered
    Malformed = "malformed"
    Witness <- MCWitness
    SrSets <- MCSrSets
    NoSrSet = NoSrSet
PROPERTY
    GapSkipsForward
CHECK_DEADLOCK FALSE
