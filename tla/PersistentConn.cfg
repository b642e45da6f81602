CONSTANTS
    Conns = {c1, c2}
    Reqs = {r1, r2}
    Streams = {s1}
    Protos = {p1, p2}
    Addrs = {a1}
    NoConn = NoConn
    NoProto = NoProto
    NoAddr = NoAddr
    NoHandler = NoHandler
    Proxy = Proxy
SPECIFICATION Spec
SYMMETRY Symmetry
INVARIANTS
    IndInv
    DeadRouteOnlyUnconfirmed
PROPERTIES
    ConfirmedHandlersFreed
    RegistrySpec
