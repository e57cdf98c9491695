SPECIFICATION FairSpec
CONSTANTS
    Ops = {o1, o2}
    Projects = {p1, p2}
    Nobody = Nobody
    Daemon = Daemon
    CanKill = TRUE
    DaemonCanDie = TRUE
    WithDevLane = TRUE
CHECK_DEADLOCK FALSE
INVARIANTS
    LaneSafe
PROPERTIES
    ImplementsQueue
    OpsEnd
