SPECIFICATION FairSpec
CONSTANTS
    Chunks = {"login", "manage", "list", "adminSet"}
    Pages = {"/", "/transactionRecoveryInfo", "/adminSet"}
    Root = "/"
    Start = Start
    RecordsOf <- MCRecordsOf
    MaxNavigations = 3
    MaxEntries = 2
INVARIANTS
    TypeOK
    UrlFollowsPage
    ShownPagesAreLoaded
    WaitsAreLoading
PROPERTIES
    ImplementsLocation
    EveryNavigationEnds
CHECK_DEADLOCK FALSE
