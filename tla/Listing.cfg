CONSTANTS
    d1 = d1
    c1 = c1
    p1 = p1
    p2 = p2
    Sections <- TwoSections
    Clearable <- OneSection
    Docs <- OneDoc
    Commissions <- OneCommission
    Requests <- TwoRequests
    MaxDeaths = 1
    Tutor <- SomeTutors
    Groups <- Triples
    TopN = 1
    MostRead = 2
    Days <- TwoDays
SPECIFICATION FairSpec
CHECK_DEADLOCK FALSE
INVARIANTS
    ProfileIsConsistent
    MatchesAreFair
PROPERTIES
    ListsOnlyComplete
    ListingSettles
