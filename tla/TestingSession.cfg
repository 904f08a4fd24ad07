CONSTANTS
    Slot = {s1, s2}
    Amount = {1, 3}
    MaxSessions = 2
    MaxClaims = 3
    MaxRequests = 2
    MaxFaults = 1
    Nil = Nil
SPECIFICATION FairSpec
INVARIANTS EveryPlaceFits ResetIsClean
PROPERTIES LeftoversRemoved
CHECK_DEADLOCK FALSE
