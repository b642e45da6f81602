SPECIFICATION RelaySpec
CONSTANTS
    MaxInt = 127
    VarintBytes = 2
    VarintBits = 4
    ShortLength = 2
    LongLength = 16
    ShortMessages = {"CallUnaryResponse", "PersistentConnectionRequest", "DHTResponse"}
    Inputs <- MCInputs
    Samples <- MCSamples
INVARIANTS
    ReadInv
    AcceptedIsComplete
    RelayPreserves
PROPERTIES
    EveryStepConsumes
