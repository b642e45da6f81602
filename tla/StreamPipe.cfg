CONSTANTS
    MaxChunks = 3
    Buffer = 1
SPECIFICATION FairPipeSpec
INVARIANTS
    PipeInv
PROPERTIES
    OneEndsBoth
