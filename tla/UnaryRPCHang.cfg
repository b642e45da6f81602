CONSTANTS
    Calls = {k1}
SPECIFICATION FairSpec
CHECK_DEADLOCK FALSE
PROPERTY ExpiredCallReturns
