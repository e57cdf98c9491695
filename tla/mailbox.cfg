SPECIFICATION FairSpec
CONSTANTS
    Msgs = {m1, m2}
    MaxTime = 2
    Overlap = FALSE
    CanDie = TRUE
    Aims = {"loop", "watch"}
    Empty = Empty
INVARIANTS
    NoMessageLost
PROPERTIES
    MessageBarsWaiting
    EachHasItsTurn
CHECK_DEADLOCK FALSE
