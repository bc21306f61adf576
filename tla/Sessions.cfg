CONSTANTS
    b1 = b1
    k1 = k1
    k2 = k2
    k3 = k3
    k4 = k4
    k5 = k5
    p1 = p1
    p2 = p2
    Nothing = Nothing
    Tabs <- OneTab
    Tokens <- FiveTokens
    Requests <- TwoRequests
    MaxFaults = 1
SPECIFICATION FairSpec
CHECK_DEADLOCK FALSE
INVARIANTS
    CodeUsedOnce
    ResetEndsSessions
PROPERTIES
    SuspendedIsOut
    RegistrationCompletes
