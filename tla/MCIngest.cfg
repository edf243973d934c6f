SPECIFICATION IngestEventsSpec
CONSTANTS
    None = None
    WordLen = 3
    AddressLen = 3
    HeightLen = 1
    NodeBlock <- MCNodeBlock
    WireBlock <- MCWireBlock
    Branch <- MCBranch
    Answer <- MCAnswer
    Receipt <- MCReceipt
    SolidAtEmit = {None, 0, 1}
    Keccak <- MCKeccak
    SignatureText <- MCSignatureText
    MaxRegister = 2
INVARIANTS
    InfosNeverHaltStream
    ReceiptsJoined
    OwnReceipts
    WireFaithful
    EventsEndToEnd
    UniversalEvents
