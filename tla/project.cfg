SPECIFICATION BothSpec
CONSTANTS
    p1 = p1
    p2 = p2
    a1 = a1
    a2 = a2
    Nobody = Nobody
    NoPort = NoPort
    Projects = {p1, p2}
    Ports = {a1, a2}
    Aims = {{"company", "remains"}, {"creds", "strays"}, {"editor", "models"}, {"editor", "agents"}, {"agents", "models"}}
    Clis = {c1}
    Slugs = {s1, s2}
    NoSlug = NoSlug
    MaxCycles = 2
    CliCanDie = TRUE
    DockerCanFail = TRUE
SYMMETRY Symmetry
INVARIANTS AcceptedBundlesWhole RegistryTells PortsOwned CredsKept DoneMeansDone
PROPERTY ImplementsLedger
CHECK_DEADLOCK FALSE
