CONSTANTS
    FirstPage = 2
    NextPage = 1
    MaxMessages = 3
    MaxPosts = 1
    Pins = {"110001", "560001"}
    Notes = {"by phone"}
    Saves = {"save1"}
    MaxDrafts = 2
    MaxText = 1
    MaxKept = 1
    Agreements = {"a1", "a2"}
    Scores = {2, 5}
    Handlers = {"h1", "h2"}
    Admins = {"admin1", "admin2"}
    MaxValue = 2
    MaxSaves = 2
    MaxEdits = 2
    Tabs = {"tab1", "tab2"}
    MaxPayments = 2
SPECIFICATION Spec
CHECK_DEADLOCK FALSE
INVARIANTS
    ReaderMissesNothing
    DraftIsAsShown
    OffersAreHonoured
    RatingsAreTrue
    ProfileIsAsShown
    PaymentIsTrue
PROPERTIES
    PastStands
    PageSettles
