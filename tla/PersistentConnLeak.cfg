CONSTANTS
    Conns = {c1}
    Reqs = {r1}
    Streams = {s1}
    Protos = {p1}
    Addrs = {a1}
    NoConn = NoConn
    NoProto = NoProto
    NoAddr = NoAddr
    NoHandler = NoHandler
    Proxy = Proxy
SPECIFICATION Spec
INVARIANT ClosedConnOwnsNothing
