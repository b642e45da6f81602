SPECIFICATION Spec
CONSTANTS
    Inputs <- MCInputs
    Peers = {p1, p2, p3}
    Others = {0, 1}
    BootstrapConnections = 2
    MaxStarts = 2
    MaxLosses = 1
INVARIANTS
    StartInv
    ServingConfig
    CloseFreesSocket
PROPERTIES
    IsolationEnds
