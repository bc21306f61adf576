CONSTANTS
    r1 = r1
    r2 = r2
    t1 = t1
    t2 = t2
    s1 = s1
    p1 = p1
    p2 = p2
    p3 = p3
    NoTarget = NoTarget
    Requirements <- OneRequirement
    Tutors <- OneTutor
    Students <- OneStudent
    StudentOf <- SameStudent
    Eligible <- AllEligible
    Requests <- ThreeRequests
    Faults = FALSE
SPECIFICATION FairSpec
CHECK_DEADLOCK FALSE
PROPERTY
    SignedIsActivated
