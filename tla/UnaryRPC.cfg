CONSTANTS
    Calls = {k1}
SPECIFICATION FairSpec
CHECK_DEADLOCK FALSE
INVARIANTS
    CallInv
    AnswerFaithful
    CrashOnlyIfExpired
PROPERTIES
    ServiceSpec
    EveryCallReturns
    ServerReleased
