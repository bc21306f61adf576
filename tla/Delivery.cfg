CONSTANTS
    d1 = d1
    d2 = d2
    l1 = l1
    p1 = p1
    p2 = p2
    Nothing = Nothing
    Demos <- TwoDemos
    Lessons <- OneLesson
    StartOf <- Simultaneous
    Near = 1
    Far = 2
    Take = 1
    Attempts = 2
    Scans <- TwoScans
    Workers = 1
    LastMoment = 3
    MaxRows = 6
    LastCancel = 1
    MaxFaults = 3
SPECIFICATION MCSpec
CHECK_DEADLOCK FALSE
INVARIANTS
    StatusIsTrue
    MarkedIsNotified
    RemindedExactlyOnce
PROPERTY
    RowsSettle
