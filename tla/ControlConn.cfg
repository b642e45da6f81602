CONSTANTS
    MaxReqs = 3
    MaxValues = 2
    SockCap = 1
    DhtEnabled = TRUE
    PubsubEnabled = TRUE
SPECIFICATION FairSpec
INVARIANTS
    ConnInv
    NoResultLost
PROPERTIES
    ForwarderStops
    ReleasedAfterHangUp
