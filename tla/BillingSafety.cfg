CONSTANTS
    t1 = t1
    c1 = c1
    q1 = q1
    q2 = q2
    p1 = p1
    p2 = p2
    Nothing = Nothing
    Tutors <- OneTutor
    Commissions <- OneCommission
    TutorOf <- SameTutor
    Fees <- ManyFees
    Payments <- TwoPayments
    Requests <- TwoRequests
    Faults = TRUE
SPECIFICATION Spec
CHECK_DEADLOCK FALSE
SYMMETRY Symmetry
INVARIANTS
    Consistent
    SettledIsCaptured
    InvoiceBalances
