CONSTANTS
    r1 = r1
    r2 = r2
    t1 = t1
    t2 = t2
    s1 = s1
    p1 = p1
    p2 = p2
    p3 = p3
    NoTarget = NoTarget
    Requirements <- OneRequirement
    Tutors <- TwoTutors
    Students <- OneStudent
    StudentOf <- SameStudent
    Eligible <- AllEligible
    Requests <- TwoRequests
    Faults = TRUE
SPECIFICATION Spec
CHECK_DEADLOCK FALSE
SYMMETRY Symmetry
INVARIANTS
    Consistent
    ActiveIsSealed
    EngagementIsBacked
PROPERTY
    ContractSpec
