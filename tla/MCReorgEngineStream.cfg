SPECIFICATION StreamEngineSpec
CONSTANTS
    NoBlock = "none"
    Block <- WideBlock
    Height <- WideHeight
    Parent <- WideParent
    BufferWindow = 3
    FinalityDepth = 2
    ForkIdModulus = 3
    SolidHead <- WideSolidHead
    MaxForkHistory = 3
INVARIANTS
    TypeOK
    CanonicalIsABranch
    FinalityComplete
    ConsumerInStep
PROPERTIES
    UndoNeverFinalized
    IrreversibleRises
    PruneOnlyFinal
    LedgerConserved
    ImplementsStream
