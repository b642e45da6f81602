CONSTANTS
    Clients = {c1, c2}
    IdleTimeout = TRUE
SPECIFICATION FairLifeSpec
INVARIANTS
    DaemonInv
    ClosedOnlyUnderLateClient
    TimerSparesClients
PROPERTIES
    LastClientEndsDaemon
    CloseEndsDaemon
    UnusedDaemonEnds
