SPECIFICATION Spec
CONSTANTS
    Regs = {r1, r2}
    Streams = {s1}
    Strays = {x1}
    Protos = {p1, p2}
    MaxData = 1
    None = none
INVARIANTS
    DispatchInv
    ProxiedFindsHandler
PROPERTIES
    StreamDispatched
