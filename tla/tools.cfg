SPECIFICATION ToolSpec
CONSTANTS
    MaxWork = 1
    MaxImports = 2
    Torn = Torn
    Junk = Junk
    Hollow = Hollow
    Foreign = Foreign
    None = None
    Resident = Resident
    MaxReviews = 3
    MaxPids = 2
    MaxForks = 2
    MaxShas = 2
    ReviewAims = {{"kills"}, {"pushes"}}
    fa = fa
    fb = fb
    Branches <- SomeBranches
    Landers = {l1, l2}
    MaxHeads = 3
    Items = {1, 2}
    Pulls = {2}
    MaxRetries = 2
    MaxWords = 4
INVARIANT BackupsRestore
PROPERTIES ImportTold ReviewsApart VerdictsStand PrefillFits ContentWhole
    LandingsArchived
    PeopleHeard
CHECK_DEADLOCK FALSE
