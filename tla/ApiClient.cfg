CONSTANTS
    c1 = c1
    c2 = c2
    c3 = c3
    None = None
    Calls <- ThreeCalls
    MaxAttempts = 2
    MaxWrites = 2
    MaxMishaps = 2
SPECIFICATION FairSpec
CHECK_DEADLOCK FALSE
INVARIANTS
    NothingRunsTwice
    CacheHasOwnWrites
PROPERTY
    CallsSettle
