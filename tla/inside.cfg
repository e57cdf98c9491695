SPECIFICATION InsideSpec
CONSTANTS
    Agents = {"claude", "pi"}
    Trees = {"editor", "node"}
    Seeds = {"node"}
    Default = "claude"
    Nothing = "nothing"
    MaxBuilds = 2
    Versions = {1, 2}
    b1 = b1
    b2 = b2
    web = web
    jupyter = jupyter
    NoBox = NoBox
    NoEntry = NoEntry
    Boxes = {b1, b2}
    Slots = {1, 2}
    Pubs = {1, 2}
    Apps = {web, jupyter}
    WebApp = web
    Folders = {"f1"}
    LastIp = 2
    Aims = {{"web", "plain", "port", "dies"}, {"web", "plain", "port", "inside", "crash"}, {"dev", "fetch", "inside", "dies"}, {"fetch", "folders", "inside", "dies"}}
SYMMETRY Symmetry
INVARIANTS
    StagedWhole
    FailedBuildHarmless
    TabsLeadHome
    RunsAsSaved
CHECK_DEADLOCK FALSE
