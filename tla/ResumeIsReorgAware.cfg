SPECIFICATION StreamSpec
CONSTANTS
    NoBlock = "none"
    Block <- ForkBlock
    Height <- ForkHeight
    Parent <- ForkParent
    BufferWindow = 2
    FinalityDepth = 1
    ForkIdModulus = 2
    SolidHead <- ForkSolidHead
    MaxForkHistory = 1
    Capacity = 3
    CacheId <- ForkBlock
    CacheHeight = {1, 2, 3, 4}
    CacheValue <- Entry
    ChannelCapacity = 1
    MaxPending = 1
    VerifyPolicy = "Disabled"
    Recovered <- MCRecovered
    Malformed = "malformed"
    Witness <- MCWitness
    SrSets <- MCSrSets
    NoSrSet = NoSrSet
    HubCapacity = 2
    StartBlock = {0}
    MaxConnects = 2
    HeightBytes = 2
    IdBytes = 2
    Radix = 3
    IdOf <- ForkId
PROPERTY
    ResumeIsReorgAware
CHECK_DEADLOCK FALSE
