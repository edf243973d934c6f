SPECIFICATION StreamSpec
CONSTANTS
    NoBlock = "none"
    Block <- LongBlock
    Height <- LongHeight
    Parent <- LongParent
    BufferWindow = 2
    FinalityDepth = 1
    ForkIdModulus = 2
    SolidHead = {2}
    MaxForkHistory = 1
    Capacity = 2
    CacheId <- LongBlock
    CacheHeight = {1, 2, 3, 4}
    CacheValue <- Entry
    ChannelCapacity = 1
    MaxPending = 1
    VerifyPolicy = "Disabled"
    Recovered <- MCRecovered
    Malformed = "malformed"
    Witness <- MCWitness
    SrSets <- MCSrSets
    NoSrSet = NoSrSet
    HubCapacity = 2
    StartBlock = {0, 2}
    MaxConnects = 2
    HeightBytes = 2
    IdBytes = 2
    Radix = 3
    IdOf <- LongId
INVARIANT
    ClientInStep
CHECK_DEADLOCK FALSE
