CONSTANTS
    m1 = m1
    m2 = m2
    p1 = p1
    p2 = p2
    Nobody = Nobody
    Day = 4
    Buffer = 1
    Matches <- TwoMatches
    Schedule <- Agreed
    Weeks = 1
    Lead = 2
    DemoStarts <- Tomorrow
    DemoLength = 1
    Dates <- Away
    LastMoment = 1
    SlotIds = {1, 2, 3}
    Requests <- TwoRequests
    Faults = TRUE
SPECIFICATION Spec
CHECK_DEADLOCK FALSE
SYMMETRY Symmetry
INVARIANTS
    DemoHoldsItsTime
    NoDoubleBooking
PROPERTIES
    CalendarStands
