SPECIFICATION DaemonSpec
CONSTANTS
    Calls = {n1, n2, n3}
    Cap = 2
    SpawnCanFail = TRUE
    StageCanFail = TRUE
    CanRestart = TRUE
    Callers = {w1, w2}
    Sums = {s1, s2}
    MaxCalls = 3
    PerSecond = 2
    Overlap = TRUE
    CanCrash = TRUE
CHECK_DEADLOCK FALSE
INVARIANTS
    SlotsExact
    NoteTellsWhy
    NotesOnce
PROPERTY JobEnds
