SPECIFICATION Spec
CONSTANTS
    Adders = {a1, a2}
    Calls = {k1}
    Protos = {p1, p2}
    None = none
INVARIANTS
    FutureInv
    FatalOnlyDuringAdd
    AddedHandlerServes
PROPERTIES
    AddReturns
