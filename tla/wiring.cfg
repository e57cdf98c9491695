SPECIFICATION BothSpec
CONSTANTS
    shared = shared
    outside = outside
    r1 = r1
    r2 = r2
    NoMcp = NoMcp
    NoRole = NoRole
    Mcps = {shared, outside}
    Shared = {shared}
    Roles = {r1, r2}
    LastIp = 1
    WireAims = {{shared, outside, "allow", "move", "dies"}, {shared, r1, "allow", "sync", "edit", "fails", "dies"}, {shared, r1, r2, "allow", "sync", "recreate", "dies"}, {r1, "models", "park", "recreate", "keeps", "fails", "dies"}, {r1, r2, "models", "park", "recreate", "dies"}, {shared, r1, "allow", "sync", "pin", "park", "recreate"}, {shared, r1, "allow", "recreate", "keeps", "fails", "dies"}, {shared, outside, "allow", "sync", "down", "edit"}, {shared, "allow", "down", "move", "fails"}, {shared, r1, "pin", "allow", "sync", "move"}}
    p1 = p1
    p2 = p2
    b1 = b1
    g1 = g1
    g2 = g2
    Own = Own
    Notes = Notes
    Nobody = Nobody
    NoRepo = NoRepo
    Projects = {p1, p2}
    Boxes = {b1}
    Repos = {g1, g2}
    Aims = {{"own", "box", "second"}, {"own", "company", "active"}, {"box", "again", "tales", "leaves"}, {"box", "again", "tales", "outage"}, {"own", "outage", "second"}, {"box", "outage", "second"}, {"notes", "outage", "leaves"}, {"own", "box", "lost", "leaves"}}
SYMMETRY Symmetry
INVARIANTS WiredAsWritten RowsWork TokensRecorded
PROPERTIES SyncSettles ParkedStays LiveForksStay
CHECK_DEADLOCK FALSE
